---- MODULE Spec2Model ----
(***************************************************************************)
(* Markdown Generator (streamlitCloud_app.py): four conversion pipelines   *)
(* (open-source / enterprise PDF, open-source / enterprise website), the   *)
(* S3 re-hosting helper and the Streamlit main() that dispatches to them.  *)
(* Markdown is modelled as the very string the Python code builds.         *)
(***************************************************************************)
EXTENDS Integers, Sequences, FiniteSets, TLC

VARIABLES
    secrets,      \* st.secrets
    s3_service,   \* how the object store answers upload_file calls
    pc,           \* position of the running script
    inp,          \* what the submit was made with (uploaded PDF / URL and backend results)
    rnd,          \* run-dependent values of this run: temp-name seed and clock
    pdf_path,     \* temp_pdf_path of main
    md,           \* the Markdown string under construction
    md_result,    \* md_result of main: None or the returned string
    files,        \* local files created by the script and still on disk
    s3_clients,   \* number of boto3.client constructions
    s3_uploads,   \* upload_file calls made, in order
    jobs,         \* number of extraction jobs submitted to the remote service
    ui,           \* what main has shown, in order
    exc,          \* exception that escaped main ("" when none)
    history       \* summary of the previous submit of the same input

vars == <<secrets, s3_service, pc, inp, rnd, pdf_path, md, md_result, files,
          s3_clients, s3_uploads, jobs, ui, exc, history>>

----------------------------------------------------------------------------
(* Bounds of the model.                                                    *)
MaxPages == 2
MaxRows == 2
MaxTags == 2

----------------------------------------------------------------------------
(* Python values and string helpers.                                       *)

None == <<>>
Some(v) == <<v>>

\* Python truthiness of an optional string
Truthy(o) == o # None /\ o[1] # ""

\* str(int) for non-negative ints
RECURSIVE Str(_)
Str(n) == IF n < 10 THEN SubSeq("0123456789", n + 1, n + 1)
          ELSE Str(n \div 10) \o SubSeq("0123456789", (n % 10) + 1, (n % 10) + 1)

\* s * n
RECURSIVE Repeat(_, _)
Repeat(s, n) == IF n <= 0 THEN "" ELSE s \o Repeat(s, n - 1)

\* sep.join(seq)
RECURSIVE Join(_, _)
Join(sep, seq) ==
    IF Len(seq) = 0 THEN ""
    ELSE IF Len(seq) = 1 THEN seq[1]
    ELSE seq[1] \o sep \o Join(sep, Tail(seq))

\* s.startswith(p), s.endswith(p)
StartsWith(s, p) == Len(s) >= Len(p) /\ SubSeq(s, 1, Len(p)) = p
EndsWith(s, p) == Len(s) >= Len(p) /\ SubSeq(s, Len(s) - Len(p) + 1, Len(s)) = p

\* index of the last "/" of a path, 0 when there is none
RECURSIVE LastSlash(_, _)
LastSlash(s, i) == IF i = 0 THEN 0
                   ELSE IF SubSeq(s, i, i) = "/" THEN i
                   ELSE LastSlash(s, i - 1)

\* os.path.basename
basename(path) == SubSeq(path, LastSlash(path, Len(path)) + 1, Len(path))

\* s.replace(old, new), old non-empty
RECURSIVE Replace(_, _, _)
Replace(s, old, new) ==
    IF Len(s) < Len(old) THEN s
    ELSE IF SubSeq(s, 1, Len(old)) = old
         THEN new \o Replace(SubSeq(s, Len(old) + 1, Len(s)), old, new)
         ELSE SubSeq(s, 1, 1) \o Replace(SubSeq(s, 2, Len(s)), old, new)

\* c occurs in s (c one character)
RECURSIVE HasChar(_, _)
HasChar(s, c) == Len(s) > 0 /\ (SubSeq(s, 1, 1) = c \/ HasChar(SubSeq(s, 2, Len(s)), c))

\* every character of s is one of allowed
RECURSIVE AllCharsIn(_, _)
AllCharsIn(s, allowed) ==
    Len(s) = 0 \/ (HasChar(allowed, SubSeq(s, 1, 1)) /\ AllCharsIn(SubSeq(s, 2, Len(s)), allowed))

\* the ASCII characters a string of the model can hold, in code-point
\* order: tab (9), newline (10), form feed (12), carriage return (13), then
\* the printable ones from the space (32) to the tilde (126); the grave
\* accent (96) is the one printable character such a string cannot hold
AsciiOrder ==
    "\t\n\f\r !\"#$%&'()*+,-./0123456789:;<=>?@ABCDEFGHIJKLMNOPQRSTUVWXYZ[\\]^_abcdefghijklmnopqrstuvwxyz{|}~"

RECURSIVE Ord(_, _)
Ord(c, i) == IF i > Len(AsciiOrder) THEN i
             ELSE IF SubSeq(AsciiOrder, i, i) = c THEN i
             ELSE Ord(c, i + 1)

\* a < b as Python compares str
RECURSIVE StrLess(_, _)
StrLess(a, b) ==
    IF Len(b) = 0 THEN FALSE
    ELSE IF Len(a) = 0 THEN TRUE
    ELSE IF SubSeq(a, 1, 1) = SubSeq(b, 1, 1)
         THEN StrLess(SubSeq(a, 2, Len(a)), SubSeq(b, 2, Len(b)))
         ELSE Ord(SubSeq(a, 1, 1), 1) < Ord(SubSeq(b, 1, 1), 1)

\* sorted(names)
RECURSIVE sorted(_)
sorted(names) ==
    IF names = {} THEN <<>>
    ELSE LET least == CHOOSE x \in names : \A y \in names \ {x} : StrLess(x, y)
         IN  <<least>> \o sorted(names \ {least})

\* The backquote cannot be written in a TLA+ string: the three-backquote
\* code fence of extract_text_to_md is written with tildes.
Fence == "~~~"

----------------------------------------------------------------------------
(* Configuration: st.secrets as a mapping from the keys present.           *)

\* st.secrets.get(key, default)
SecretsGet(key, default) == IF key \in DOMAIN secrets THEN secrets[key] ELSE default

\* ADOBE_CREDENTIALS_JSON is kept as what json.loads makes of it: the parsed
\* object, or no object when the text is not JSON
AdobeCredentials ==
    [parses |-> TRUE, value |-> [client_credentials |-> [client_id |-> "id", client_secret |-> "sec"]]]
AdobeNotJson == [parses |-> FALSE, value |-> <<>>]
AdobeNoClient == [parses |-> TRUE, value |-> [client_id |-> "id"]]

S3Full == [S3_BUCKET_NAME |-> "bkt", AWS_ACCESS_KEY_ID |-> "AKIA", AWS_SECRET_ACCESS_KEY |-> "shh"]

\* the deployments explored: which secrets are set, and to what
SecretsFiles ==
    { S3Full @@ [ADOBE_CREDENTIALS_JSON |-> AdobeCredentials, DIFFBOT_API_TOKEN |-> "tok"],
      S3Full @@ [AWS_DEFAULT_REGION |-> "us east", ADOBE_CREDENTIALS_JSON |-> AdobeCredentials,
                 DIFFBOT_API_TOKEN |-> "tok"],
      [AWS_ACCESS_KEY_ID |-> "AKIA", AWS_SECRET_ACCESS_KEY |-> "shh",
       ADOBE_CREDENTIALS_JSON |-> AdobeCredentials, DIFFBOT_API_TOKEN |-> "tok"],
      [S3_BUCKET_NAME |-> "bkt", AWS_ACCESS_KEY_ID |-> "", AWS_SECRET_ACCESS_KEY |-> "shh",
       ADOBE_CREDENTIALS_JSON |-> AdobeNotJson, DIFFBOT_API_TOKEN |-> ""],
      [S3_BUCKET_NAME |-> "bkt", AWS_ACCESS_KEY_ID |-> "AKIA",
       ADOBE_CREDENTIALS_JSON |-> AdobeNoClient],
      <<>> }

\* the answers of the object store to the n-th upload_file call of a run
S3Services == {"up", "down", "nocreds", "flaky"}

S3Outcome(service, n) ==
    CASE service = "up" -> "ok"
      [] service = "down" -> "Exception"
      [] service = "nocreds" -> "NoCredentialsError"
      [] service = "flaky" -> IF n % 2 = 1 THEN "Exception" ELSE "ok"

\* botocore refuses a region name that is not a host label when the client is built
ValidRegion(r) == AllCharsIn(r, "abcdefghijklmnopqrstuvwxyz0123456789-")

----------------------------------------------------------------------------
(* upload_file_to_s3: st is [clients, uploads], the calls made so far in   *)
(* this run; the result carries the calls after it, the URL returned (or   *)
(* None) and the exception raised ("" when it returned).                   *)

\* mutant: only the bucket name is looked at
S3Configured_BucketOnly == SecretsGet("S3_BUCKET_NAME", "") # ""

\* bucket_name and aws_key and aws_secret
S3Configured ==
    /\ SecretsGet("S3_BUCKET_NAME", "") # ""
    /\ SecretsGet("AWS_ACCESS_KEY_ID", "") # ""
    /\ SecretsGet("AWS_SECRET_ACCESS_KEY", "") # ""

\* object_key = os.path.basename(file_path)
ObjectKey(file_path) == basename(file_path)

upload_file_to_s3(file_path, st) ==
    LET bucket_name == SecretsGet("S3_BUCKET_NAME", "")
        aws_region == SecretsGet("AWS_DEFAULT_REGION", "us-east-1")
        object_key == ObjectKey(file_path)
        outcome == S3Outcome(s3_service, Len(st.uploads) + 1)
        call == [file |-> file_path, bucket |-> bucket_name, key |-> object_key]
    IN  IF ~S3Configured
        THEN [url |-> None, raised |-> "", clients |-> st.clients, uploads |-> st.uploads]
        ELSE IF ~ValidRegion(aws_region)
        THEN [url |-> None, raised |-> "InvalidRegionError",
              clients |-> st.clients + 1, uploads |-> st.uploads]
        ELSE IF outcome = "ok"
        THEN [url |-> Some("https://" \o bucket_name \o ".s3.amazonaws.com/" \o object_key),
              raised |-> "", clients |-> st.clients + 1, uploads |-> Append(st.uploads, call)]
        ELSE [url |-> None, raised |-> "",
              clients |-> st.clients + 1, uploads |-> Append(st.uploads, call)]

----------------------------------------------------------------------------
(* A) Open-source PDF extraction.                                          *)

\* tempfile.NamedTemporaryFile(delete=False, suffix=...).name: the seed
\* stands for the random part of the names of one run
TmpName(seed, serial, suffix) == "/tmp/tmp" \o seed \o Str(serial) \o suffix

ImageRef(page_num, img_index, s3_url) ==
    "![Image page " \o Str(page_num + 1) \o " - " \o Str(img_index + 1) \o "](" \o s3_url \o ")\n"

ImageWarning(page_num, img_index) ==
    "\n**[Warning: Failed to upload image (page " \o Str(page_num + 1) \o ", index "
        \o Str(img_index + 1) \o ") to S3]**\n"

\* the two loops of extract_images_to_md from (page_num, img_index) on;
\* acc is [md, clients, uploads, files, serial, raised]
RECURSIVE ImagesLoop(_, _, _, _, _)
ImagesLoop(pages, seed, page_num, img_index, acc) ==
    IF page_num >= Len(pages) THEN acc
    ELSE IF img_index >= Len(pages[page_num + 1].images)
    THEN ImagesLoop(pages, seed, page_num + 1, 0, acc)
    ELSE LET image_ext == pages[page_num + 1].images[img_index + 1]
             tmp_path == TmpName(seed, acc.serial, "." \o image_ext)
             up == upload_file_to_s3(tmp_path, [clients |-> acc.clients, uploads |-> acc.uploads])
         IN  IF up.raised # ""
             THEN [acc EXCEPT !.clients = up.clients, !.uploads = up.uploads,
                              !.files = acc.files \cup {tmp_path},
                              !.serial = acc.serial + 1, !.raised = up.raised]
             ELSE ImagesLoop(pages, seed, page_num, img_index + 1,
                    [acc EXCEPT !.clients = up.clients, !.uploads = up.uploads,
                                !.files = acc.files \ {tmp_path},
                                !.serial = acc.serial + 1,
                                !.md = IF Truthy(up.url)
                                       THEN acc.md \o ImageRef(page_num, img_index, up.url[1])
                                       ELSE acc.md \o ImageWarning(page_num, img_index)])

extract_images_to_md(pages, seed, st) ==
    ImagesLoop(pages, seed, 0, 0,
               [md |-> "\n## Extracted Images\n", clients |-> st.clients, uploads |-> st.uploads,
                files |-> st.files, serial |-> st.serial, raised |-> ""])

\* page.extract_text() or ""
OrEmpty(t) == IF Truthy(t) THEN t[1] ELSE ""

RECURSIVE TextLoop(_, _, _)
TextLoop(pages, page_num, md_text) ==
    IF page_num >= Len(pages) THEN md_text
    ELSE TextLoop(pages, page_num + 1,
           md_text \o "\n### Page " \o Str(page_num + 1) \o "\n" \o Fence \o "\n"
                   \o OrEmpty(pages[page_num + 1].text) \o "\n" \o Fence \o "\n")

\* mutant: the pages are written without the section heading
extract_text_to_md_NoHeading(pages) == TextLoop(pages, 0, "\n")

extract_text_to_md(pages) == TextLoop(pages, 0, "\n## Extracted Text\n")

\* the loop over the tables read_pdf returned; a table is what to_markdown
\* answers for it: [markdown] or [raises]
RECURSIVE TablesLoop(_, _, _)
TablesLoop(tables, i, md_tables) ==
    IF i >= Len(tables) THEN md_tables
    ELSE LET table == tables[i + 1]
             head == md_tables \o "\n### Table " \o Str(i + 1) \o "\n"
         IN  IF table.raises # None
             THEN head \o "\nFailed to process tables: " \o table.raises[1] \o "\n"
             ELSE TablesLoop(tables, i + 1, head \o table.markdown \o "\n")

extract_tables_to_md(tabula) ==
    IF tabula.raises # None
    THEN "\n## Extracted Tables\n" \o "\nFailed to process tables: " \o tabula.raises[1] \o "\n"
    ELSE TablesLoop(tabula.tables, 0, "\n## Extracted Tables\n")

open_source_extract_pdf_title(path) == "# Extracted Content from " \o basename(path) \o "\n"

----------------------------------------------------------------------------
(* B) Enterprise (Adobe) PDF extraction.                                   *)

\* what the try block of enterprise_extract_pdf raises before any call to
\* the service: "" when the credentials are read
\* mutant: only the presence of the secret is looked at
AdobeCredentialsError_PresenceOnly ==
    IF "ADOBE_CREDENTIALS_JSON" \notin DOMAIN secrets THEN "ValueError" ELSE ""

AdobeCredentialsError ==
    IF "ADOBE_CREDENTIALS_JSON" \notin DOMAIN secrets THEN "ValueError"
    ELSE IF ~secrets["ADOBE_CREDENTIALS_JSON"].parses THEN "JSONDecodeError"
    ELSE IF "client_credentials" \notin DOMAIN secrets["ADOBE_CREDENTIALS_JSON"].value THEN "KeyError"
    ELSE IF {"client_id", "client_secret"} \subseteq
                DOMAIN secrets["ADOBE_CREDENTIALS_JSON"].value["client_credentials"] THEN ""
    ELSE "KeyError"

create_adobe_zip_path(now_str) == "temp_adobe_extractions" \o "/" \o "extraction_" \o now_str \o ".zip"

\* "| " + " | ".join(row) + " |\n"
PipeRow(row) == "| " \o Join(" | ", row) \o " |\n"

\* mutant: three dashes under every header cell
DashRow_ThreeDashes(row) == "| " \o Join(" | ", [k \in 1..Len(row) |-> "---"]) \o " |\n"

\* "| " + " | ".join(["-" * len(col) for col in row]) + " |\n"
DashRow(row) == "| " \o Join(" | ", [k \in 1..Len(row) |-> Repeat("-", Len(row[k]))]) \o " |\n"

\* the loop over element["Table"]["Rows"]
RECURSIVE AdobeTableRows(_, _)
AdobeTableRows(rows, i) ==
    IF i >= Len(rows) THEN ""
    ELSE PipeRow(rows[i + 1]) \o (IF i = 0 THEN DashRow(rows[i + 1]) ELSE "")
            \o AdobeTableRows(rows, i + 1)

ElementMd(element) ==
    (IF "Text" \in DOMAIN element THEN "## Text Element\n" \o element["Text"] \o "\n\n" ELSE "")
    \o (IF "Table" \in DOMAIN element
        THEN "## Table Element\n"
             \o AdobeTableRows(IF "Rows" \in DOMAIN element["Table"]
                               THEN element["Table"]["Rows"] ELSE <<>>, 0)
             \o "\n"
        ELSE "")

RECURSIVE ElementsMd(_)
ElementsMd(elements) ==
    IF Len(elements) = 0 THEN "" ELSE ElementMd(Head(elements)) \o ElementsMd(Tail(elements))

\* [str(cell) if cell else "" for cell in row], cells None or a string
RowData(row) == [k \in 1..Len(row) |-> IF Truthy(row[k]) THEN row[k][1] ELSE ""]

\* the loop over sheet.iter_rows(values_only=True)
RECURSIVE XlsxRows(_, _)
XlsxRows(rows, i) ==
    IF i >= Len(rows) THEN ""
    ELSE PipeRow(RowData(rows[i + 1]))
            \o (IF i = 0 THEN DashRow(RowData(rows[i + 1])) ELSE "")
            \o XlsxRows(rows, i + 1)

\* the loop over sorted(os.listdir(tables_folder)); folder is a set of
\* [name, rows]
RECURSIVE XlsxTablesMd(_, _)
XlsxTablesMd(folder, names) ==
    IF Len(names) = 0 THEN ""
    ELSE LET tbl_file == Head(names)
             entry == CHOOSE e \in folder : e.name = tbl_file
         IN  (IF EndsWith(tbl_file, ".xlsx")
              THEN "## Table from " \o tbl_file \o "\n" \o XlsxRows(entry.rows, 0) \o "\n"
              ELSE "")
             \o XlsxTablesMd(folder, Tail(names))

\* the loop over sorted(os.listdir(figures_folder)); folder is a set of
\* [name, isfile]; acc is [md, clients, uploads, raised]
RECURSIVE FiguresLoop(_, _, _, _)
FiguresLoop(figures_folder, folder, names, acc) ==
    IF Len(names) = 0 THEN acc
    ELSE LET fig_file == Head(names)
             fig_path == figures_folder \o "/" \o fig_file
             entry == CHOOSE e \in folder : e.name = fig_file
             up == upload_file_to_s3(fig_path, [clients |-> acc.clients, uploads |-> acc.uploads])
         IN  IF ~entry.isfile THEN FiguresLoop(figures_folder, folder, Tail(names), acc)
             ELSE IF up.raised # ""
             THEN [acc EXCEPT !.clients = up.clients, !.uploads = up.uploads, !.raised = up.raised]
             ELSE FiguresLoop(figures_folder, folder, Tail(names),
                    [acc EXCEPT !.clients = up.clients, !.uploads = up.uploads,
                                !.md = acc.md \o "![Figure]("
                                         \o (IF Truthy(up.url) THEN up.url[1] ELSE fig_path)
                                         \o ")\n\n"])

Names(folder) == { e.name : e \in folder }

\* the files zf.extractall(out_dir) writes for a bundle
Unpacked(out_dir, bundle) ==
    (IF bundle.manifest # None THEN {out_dir \o "/structuredData.json"} ELSE {})
    \cup (IF bundle.tables # None
          THEN { out_dir \o "/tables/" \o n : n \in Names(bundle.tables[1]) } ELSE {})
    \cup (IF bundle.figures # None
          THEN { out_dir \o "/figures/" \o e.name : e \in { f \in bundle.figures[1] : f.isfile } }
          ELSE {})

\* adobe_zip_to_markdown: [md, raised, clients, uploads, files]
adobe_zip_to_markdown(zip_file_path, bundle, st) ==
    LET out_dir == Replace(zip_file_path, ".zip", "")
        on_disk == st.files \cup Unpacked(out_dir, bundle)
        data == bundle.manifest[1]
        head == "# Extracted PDF Data (Enterprise)\n\n"
                   \o ElementsMd(IF "elements" \in DOMAIN data THEN data["elements"] ELSE <<>>)
                   \o (IF bundle.tables # None
                       THEN XlsxTablesMd(bundle.tables[1], sorted(Names(bundle.tables[1])))
                       ELSE "")
        figs == FiguresLoop(out_dir \o "/figures", bundle.figures[1],
                            sorted(Names(bundle.figures[1])),
                            [md |-> head \o "## Images\n\n", clients |-> st.clients,
                             uploads |-> st.uploads, raised |-> ""])
    IN  IF bundle.manifest = None
        THEN [md |-> "", raised |-> "FileNotFoundError", clients |-> st.clients,
              uploads |-> st.uploads, files |-> on_disk]
        ELSE IF bundle.figures = None
        THEN [md |-> head, raised |-> "", clients |-> st.clients, uploads |-> st.uploads,
              files |-> on_disk]
        ELSE [md |-> figs.md, raised |-> figs.raised, clients |-> figs.clients,
              uploads |-> figs.uploads, files |-> on_disk]

----------------------------------------------------------------------------
(* C) Open-source website extraction.                                      *)

\* index of the first character of s that is one of chars, at or after i;
\* Len(s) + 1 when there is none
RECURSIVE FindAny(_, _, _)
FindAny(s, chars, i) ==
    IF i > Len(s) THEN Len(s) + 1
    ELSE IF HasChar(chars, SubSeq(s, i, i)) THEN i
    ELSE FindAny(s, chars, i + 1)

\* s.split("/")
RECURSIVE SplitSlash(_, _)
SplitSlash(s, cur) ==
    IF Len(s) = 0 THEN <<cur>>
    ELSE IF SubSeq(s, 1, 1) = "/" THEN <<cur>> \o SplitSlash(SubSeq(s, 2, Len(s)), "")
    ELSE SplitSlash(SubSeq(s, 2, Len(s)), cur \o SubSeq(s, 1, 1))

UpperChars == "ABCDEFGHIJKLMNOPQRSTUVWXYZ"
LowerChars == "abcdefghijklmnopqrstuvwxyz"
SchemeChars == UpperChars \o LowerChars \o "0123456789+-."

\* s.lower()
RECURSIVE Lower(_)
Lower(s) ==
    IF Len(s) = 0 THEN ""
    ELSE LET c == SubSeq(s, 1, 1)
             k == FindAny(UpperChars, c, 1)
         IN  (IF HasChar(UpperChars, c) THEN SubSeq(LowerChars, k, k) ELSE c)
                \o Lower(SubSeq(s, 2, Len(s)))

\* urlsplit, first step: the scheme is what precedes the first ":" when
\* that is a letter followed by scheme characters; [scheme, rest]
SplitScheme(url, default_scheme, colon) ==
    IF /\ colon > 1 /\ colon <= Len(url)
       /\ HasChar(UpperChars \o LowerChars, SubSeq(url, 1, 1))
       /\ AllCharsIn(SubSeq(url, 1, colon - 1), SchemeChars)
    THEN [scheme |-> Lower(SubSeq(url, 1, colon - 1)), rest |-> SubSeq(url, colon + 1, Len(url))]
    ELSE [scheme |-> default_scheme, rest |-> url]

\* s.split(sep) for a one-character sep
RECURSIVE SplitOn(_, _, _)
SplitOn(s, sep, cur) ==
    IF Len(s) = 0 THEN <<cur>>
    ELSE IF SubSeq(s, 1, 1) = sep THEN <<cur>> \o SplitOn(SubSeq(s, 2, Len(s)), sep, "")
    ELSE SplitOn(SubSeq(s, 2, Len(s)), sep, cur \o SubSeq(s, 1, 1))

\* int(s, 10) of a string of decimal digits
RECURSIVE DecimalValue(_, _)
DecimalValue(s, acc) ==
    IF Len(s) = 0 THEN acc
    ELSE DecimalValue(SubSeq(s, 2, Len(s)), acc * 10 + FindAny("0123456789", SubSeq(s, 1, 1), 1) - 1)

\* ipaddress._parse_octet does not raise: one to three decimal digits, no
\* leading zero, at most 255
OctetOk(octet_str) ==
    /\ Len(octet_str) > 0
    /\ AllCharsIn(octet_str, "0123456789")
    /\ Len(octet_str) <= 3
    /\ (octet_str = "0" \/ SubSeq(octet_str, 1, 1) # "0")
    /\ DecimalValue(octet_str, 0) <= 255

\* ipaddress.IPv4Address(addr_str) does not raise
IsIPv4Address(addr_str) ==
    /\ ~HasChar(addr_str, "/") /\ addr_str # ""
    /\ Len(SplitOn(addr_str, ".", "")) = 4
    /\ \A i \in 1..4 : OctetOk(SplitOn(addr_str, ".", "")[i])

\* ipaddress._parse_hextet does not raise: one to four hex digits
HextetOk(hextet_str) ==
    Len(hextet_str) > 0 /\ AllCharsIn(hextet_str, "0123456789abcdefABCDEF") /\ Len(hextet_str) <= 4

\* the parts of an IPv6 address once an IPv4-style suffix is replaced by
\* its two hextets
V6Parts(parts) ==
    IF HasChar(parts[Len(parts)], ".")
    THEN SubSeq(parts, 1, Len(parts) - 1) \o <<"0", "0">>
    ELSE parts

\* the parts before "::" (parts_hi) and after it (parts_lo) are those the
\* address may have, and each is a hextet; skip is the place of the empty
\* part of "::"
V6SkippedOk(parts, skip, parts_hi, parts_lo) ==
    /\ (parts[1] = "" => parts_hi = 0)
    /\ (parts[Len(parts)] = "" => parts_lo = 0)
    /\ 8 - (parts_hi + parts_lo) >= 1
    /\ \A i \in 1..parts_hi : HextetOk(parts[i])
    /\ \A i \in (Len(parts) - parts_lo + 1)..Len(parts) : HextetOk(parts[i])

\* the checks of _ip_int_from_string after the suffix is replaced; skips
\* are the places of the empty parts other than the first and the last
V6PartsOk(parts, skips) ==
    /\ Len(parts) <= 9
    /\ IF skips = {}
       THEN Len(parts) = 8 /\ \A i \in 1..Len(parts) : HextetOk(parts[i])
       ELSE /\ Cardinality(skips) = 1
            /\ \A skip \in skips :
                  V6SkippedOk(parts, skip,
                              (skip - 1) - (IF parts[1] = "" THEN 1 ELSE 0),
                              (Len(parts) - skip) - (IF parts[Len(parts)] = "" THEN 1 ELSE 0))

\* ipaddress.IPv6Address._ip_int_from_string(ip_str) does not raise
V6FromParts(ip_str, parts) ==
    /\ ip_str # ""
    /\ Len(parts) >= 3
    /\ (HasChar(parts[Len(parts)], ".") => IsIPv4Address(parts[Len(parts)]))
    /\ V6PartsOk(V6Parts(parts),
                 { i \in 2..(Len(V6Parts(parts)) - 1) : V6Parts(parts)[i] = "" })

\* _split_scope_id(ip_str) does not raise: a "%" is followed by a scope id
\* without "%"; at is the place of the first "%"
ScopeIdOk(ip_str, at) ==
    at > Len(ip_str) \/ (at < Len(ip_str) /\ ~HasChar(SubSeq(ip_str, at + 1, Len(ip_str)), "%"))

\* ipaddress.IPv6Address(addr_str) does not raise
IsIPv6Address(addr_str) ==
    /\ ~HasChar(addr_str, "/")
    /\ ScopeIdOk(addr_str, FindAny(addr_str, "%", 1))
    /\ V6FromParts(SubSeq(addr_str, 1, FindAny(addr_str, "%", 1) - 1),
                   SplitOn(SubSeq(addr_str, 1, FindAny(addr_str, "%", 1) - 1), ":", ""))

\* re.match(r"\Av[a-fA-F0-9]+\..+\Z", hostname) for a hostname that starts
\* with "v"; dot is the place of its first "."
IsIPvFuture(hostname, dot) ==
    /\ dot >= 3 /\ dot < Len(hostname)
    /\ AllCharsIn(SubSeq(hostname, 2, dot - 1), "0123456789abcdefABCDEF")
    /\ ~HasChar(SubSeq(hostname, dot + 1, Len(hostname)), "\n")

\* repr(s) of a str
RECURSIVE ReprChars(_, _)
ReprChars(s, quote) ==
    IF Len(s) = 0 THEN ""
    ELSE (LET c == SubSeq(s, 1, 1)
          IN  IF c = "\\" THEN "\\\\"
              ELSE IF c = quote THEN "\\" \o quote
              ELSE IF c = "\t" THEN "\\t"
              ELSE IF c = "\n" THEN "\\n"
              ELSE IF c = "\r" THEN "\\r"
              ELSE IF c = "\f" THEN "\\x0c"
              ELSE c)
         \o ReprChars(SubSeq(s, 2, Len(s)), quote)

Repr(s) ==
    IF HasChar(s, "'") /\ ~HasChar(s, "\"") THEN "\"" \o ReprChars(s, "\"") \o "\""
    ELSE "'" \o ReprChars(s, "'") \o "'"

\* the message of the ValueError _check_bracketed_host(hostname) raises,
\* "" when it raises none (urllib.parse of CPython 3.11.4 and later; an
\* unmatched bracket is rejected by every version)
BracketedHostError(hostname) ==
    IF StartsWith(hostname, "v")
    THEN (IF IsIPvFuture(hostname, FindAny(hostname, ".", 1)) THEN ""
          ELSE "IPvFuture address is invalid")
    ELSE IF IsIPv4Address(hostname) THEN "An IPv4 address cannot be in brackets"
    ELSE IF IsIPv6Address(hostname) THEN ""
    ELSE Repr(hostname) \o " does not appear to be an IPv4 or IPv6 address"

\* netloc.partition("[")[2].partition("]")[0]; open is the place of the
\* first "["
BracketedHost(netloc, open) ==
    SubSeq(netloc, open + 1, FindAny(netloc, "]", open + 1) - 1)

\* the message of the ValueError urlsplit raises for the netloc, "" when
\* it raises none
NetlocError(netloc) ==
    IF HasChar(netloc, "[") # HasChar(netloc, "]") THEN "Invalid IPv6 URL"
    ELSE IF HasChar(netloc, "[")
    THEN BracketedHostError(BracketedHost(netloc, FindAny(netloc, "[", 1)))
    ELSE ""

\* second step: after "//" the netloc runs to the next "/", "?" or "#";
\* raises is the message of the ValueError raised for it, "" when none is
SplitNetloc(rest, delim) ==
    IF StartsWith(rest, "//")
    THEN [netloc |-> SubSeq(rest, 3, delim - 1), rest |-> SubSeq(rest, delim, Len(rest)),
          raises |-> NetlocError(SubSeq(rest, 3, delim - 1))]
    ELSE [netloc |-> "", rest |-> rest, raises |-> ""]

\* s.split(c, 1) as [before, after]: at is the place of c, Len(s) + 1 when
\* s has none
SplitAt(s, at) == [before |-> SubSeq(s, 1, at - 1), after |-> SubSeq(s, at + 1, Len(s))]

UrlParts(scheme, netloc, pq, fragment) ==
    [scheme |-> scheme, netloc |-> netloc, path |-> pq.before, query |-> pq.after,
     fragment |-> fragment, raises |-> ""]

\* urlsplit raises ValueError(message) and answers no parts
UrlRaises(message) ==
    [scheme |-> "", netloc |-> "", path |-> "", query |-> "", fragment |-> "",
     raises |-> message]

UrlAfterNetloc(scheme, netloc, pqf) ==
    UrlParts(scheme, netloc, SplitAt(pqf.before, FindAny(pqf.before, "?", 1)), pqf.after)

UrlAfterScheme(scheme, n) ==
    IF n.raises # "" THEN UrlRaises(n.raises)
    ELSE UrlAfterNetloc(scheme, n.netloc, SplitAt(n.rest, FindAny(n.rest, "#", 1)))

UrlOfScheme(s) == UrlAfterScheme(s.scheme, SplitNetloc(s.rest, FindAny(s.rest, "/?#", 3)))

\* the space and the C0 control characters a string of the model can hold:
\* tab, newline, carriage return and form feed
C0ControlOrSpace == " \t\n\r\f"

\* the characters urlsplit removes wherever they stand
UnsafeUrlBytes == "\t\r\n"

\* s.lstrip(chars), s.rstrip(chars)
RECURSIVE LStrip(_, _)
LStrip(s, chars) ==
    IF Len(s) > 0 /\ HasChar(chars, SubSeq(s, 1, 1)) THEN LStrip(SubSeq(s, 2, Len(s)), chars)
    ELSE s

RECURSIVE RStrip(_, _)
RStrip(s, chars) ==
    IF Len(s) > 0 /\ HasChar(chars, SubSeq(s, Len(s), Len(s)))
    THEN RStrip(SubSeq(s, 1, Len(s) - 1), chars)
    ELSE s

\* s with every character of chars removed
RECURSIVE RemoveAll(_, _)
RemoveAll(s, chars) ==
    IF Len(s) = 0 THEN ""
    ELSE (IF HasChar(chars, SubSeq(s, 1, 1)) THEN "" ELSE SubSeq(s, 1, 1))
            \o RemoveAll(SubSeq(s, 2, Len(s)), chars)

\* urlsplit once url and scheme are stripped
UrlSplitStripped(url, default_scheme) ==
    UrlOfScheme(SplitScheme(url, default_scheme, FindAny(url, ":", 1)))

\* urllib.parse.urlsplit(url, scheme): [scheme, netloc, path, query, fragment,
\* raises]; url loses its leading spaces and control characters, scheme
\* those at both ends, and both every tab, carriage return and newline;
\* raises is the message of the ValueError raised for a netloc with an
\* unmatched bracket or a bracketed host that is no IPv6 or IPvFuture
\* address, "" when the split answers
urlsplit(url, default_scheme) ==
    UrlSplitStripped(RemoveAll(LStrip(url, C0ControlOrSpace), UnsafeUrlBytes),
                     RemoveAll(RStrip(LStrip(default_scheme, C0ControlOrSpace), C0ControlOrSpace),
                               UnsafeUrlBytes))

\* urllib.parse.uses_relative, uses_netloc and uses_params
UsesRelative ==
    {"", "ftp", "http", "gopher", "nntp", "imap", "wais", "file", "https", "shttp", "mms",
     "prospero", "rtsp", "rtsps", "rtspu", "sftp", "svn", "svn+ssh", "ws", "wss"}
UsesNetloc ==
    {"", "ftp", "http", "gopher", "nntp", "telnet", "imap", "wais", "file", "mms", "https",
     "shttp", "snews", "prospero", "rtsp", "rtsps", "rtspu", "rsync", "svn", "svn+ssh", "sftp",
     "nfs", "git", "git+ssh", "ws", "wss"}
UsesParams ==
    {"", "ftp", "hdl", "prospero", "http", "imap", "https", "shttp", "rtsp", "rtsps", "rtspu",
     "sip", "sips", "mms", "sftp", "tel"}

\* urllib.parse._splitparams(url) for a url that holds ";": the params
\* follow the first ";" of the last path segment
SplitParams(url) ==
    IF HasChar(url, "/") THEN SplitAt(url, FindAny(url, ";", LastSlash(url, Len(url))))
    ELSE SplitAt(url, FindAny(url, ";", 1))

\* the parts of urlparse: those of urlsplit, the path split in path and
\* params
WithParams(s, pp) ==
    [scheme |-> s.scheme, netloc |-> s.netloc, path |-> pp.before, params |-> pp.after,
     query |-> s.query, fragment |-> s.fragment, raises |-> s.raises]

UrlParsed(s) ==
    IF s.raises = "" /\ s.scheme \in UsesParams /\ HasChar(s.path, ";")
    THEN WithParams(s, SplitParams(s.path))
    ELSE WithParams(s, [before |-> s.path, after |-> ""])

\* urllib.parse.urlparse(url, scheme): [scheme, netloc, path, params,
\* query, fragment, raises]
urlparse(url, default_scheme) == UrlParsed(urlsplit(url, default_scheme))

\* urllib.parse.urlunsplit
urlunsplit(p) ==
    (IF p.scheme # "" THEN p.scheme \o ":" ELSE "")
    \o (IF p.netloc # "" \/ (p.scheme # "" /\ p.scheme \in UsesNetloc /\ ~StartsWith(p.path, "//"))
        THEN "//" \o p.netloc \o (IF p.path # "" /\ ~StartsWith(p.path, "/") THEN "/" ELSE "")
        ELSE "")
    \o p.path
    \o (IF p.query # "" THEN "?" \o p.query ELSE "")
    \o (IF p.fragment # "" THEN "#" \o p.fragment ELSE "")

\* segments[1:-1] = filter(None, segments[1:-1])
DropEmptyMiddle(segments) ==
    IF Len(segments) <= 2 THEN segments
    ELSE <<segments[1]>>
            \o SelectSeq(SubSeq(segments, 2, Len(segments) - 1), LAMBDA x : x # "")
            \o <<segments[Len(segments)]>>

\* the loop of urljoin that resolves "." and ".." segments
RECURSIVE ResolveDots(_, _)
ResolveDots(segments, resolved_path) ==
    IF Len(segments) = 0 THEN resolved_path
    ELSE LET seg == Head(segments)
         IN  IF seg = ".."
             THEN ResolveDots(Tail(segments),
                              IF Len(resolved_path) = 0 THEN resolved_path
                              ELSE SubSeq(resolved_path, 1, Len(resolved_path) - 1))
             ELSE IF seg = "." THEN ResolveDots(Tail(segments), resolved_path)
             ELSE ResolveDots(Tail(segments), Append(resolved_path, seg))

\* base_parts of urljoin: the segments of the base path without the last
BaseParts(bparts) ==
    IF bparts[Len(bparts)] # "" THEN SubSeq(bparts, 1, Len(bparts) - 1) ELSE bparts

\* "/".join(resolved_path) or "/", with the trailing "" after "." or ".."
ResolvedPath(segments) ==
    Join("/", ResolveDots(segments, <<>>)
              \o (IF segments[Len(segments)] \in {".", ".."} THEN <<"">> ELSE <<>>))

OrSlash(path) == IF path = "" THEN "/" ELSE path

\* the path of the joined URL
JoinPath(bpath, path) ==
    OrSlash(ResolvedPath(IF StartsWith(path, "/") THEN SplitSlash(path, "")
                         ELSE DropEmptyMiddle(BaseParts(SplitSlash(bpath, ""))
                                                 \o SplitSlash(path, ""))))

\* urllib.parse.urlunparse: the params go back behind the path
urlunparse(p) ==
    urlunsplit([scheme |-> p.scheme, netloc |-> p.netloc,
                path |-> IF p.params # "" THEN p.path \o ";" \o p.params ELSE p.path,
                query |-> p.query, fragment |-> p.fragment])

\* the joined URL of a url without netloc of its own; netloc is that of
\* the base when the scheme uses one
JoinedRelative(b, u, netloc) ==
    IF u.path = "" /\ u.params = ""
    THEN urlunparse([scheme |-> u.scheme, netloc |-> netloc, path |-> b.path,
                     params |-> b.params,
                     query |-> IF u.query = "" THEN b.query ELSE u.query,
                     fragment |-> u.fragment])
    ELSE urlunparse([scheme |-> u.scheme, netloc |-> netloc,
                     path |-> JoinPath(b.path, u.path), params |-> u.params,
                     query |-> u.query, fragment |-> u.fragment])

\* the joined URL once base and url are parsed
JoinedUrl(base, url, b, u) ==
    IF u.scheme # b.scheme \/ u.scheme \notin UsesRelative THEN url
    ELSE IF u.scheme \in UsesNetloc /\ u.netloc # "" THEN urlunparse(u)
    ELSE JoinedRelative(b, u, IF u.scheme \in UsesNetloc THEN b.netloc ELSE u.netloc)

\* a URL answered, and a ValueError raised in its place
Answers(url) == [url |-> url, raises |-> ""]
Raises(message) == [url |-> "", raises |-> message]

JoinParts(base, url, b, u) ==
    IF u.raises # "" THEN Raises(u.raises) ELSE Answers(JoinedUrl(base, url, b, u))

JoinWithBase(base, url, b) ==
    IF b.raises # "" THEN Raises(b.raises)
    ELSE JoinParts(base, url, b, urlparse(url, b.scheme))

\* urllib.parse.urljoin(base, url): [url, raises], raises the message of the ValueError urlsplit raises for
\* base or for url, "" when the join answers url
urljoin(base, url) ==
    IF base = "" THEN Answers(url)
    ELSE IF url = "" THEN Answers(base)
    ELSE JoinWithBase(base, url, urlparse(base, ""))

\* what one tag adds to a list of URLs: urls, or the ValueError urljoin
\* raised
Listing(joined) ==
    [urls |-> IF joined.raises # "" THEN <<>> ELSE <<joined.url>>, raises |-> joined.raises]

\* the list after the first tag and the rest of the tags: the loop stops at
\* the first tag that raises
ListingThen(first, rest) ==
    IF first.raises # "" THEN first
    ELSE IF rest.raises # "" THEN rest
    ELSE [urls |-> first.urls \o rest.urls, raises |-> ""]

\* the src of one img tag as the page lists it (lines 310-316): [urls,
\* raises]; a tag without src (None) is skipped
ImageUrl(url, img) ==
    IF img = None THEN [urls |-> <<>>, raises |-> ""]
    ELSE IF StartsWith(img[1], "//") THEN Listing(Answers("https:" \o img[1]))
    ELSE IF ~(StartsWith(img[1], "http:") \/ StartsWith(img[1], "https:"))
    THEN Listing(urljoin(url, img[1]))
    ELSE Listing(Answers(img[1]))

\* mutant: the href is listed as the page has it
LinkUrl_Raw(url, href) == Listing(Answers(href))

\* the href of one anchor as the page lists it (lines 322-325): [urls,
\* raises]
LinkUrl(url, href) ==
    IF ~(StartsWith(href, "http:") \/ StartsWith(href, "https:"))
    THEN Listing(urljoin(url, href))
    ELSE Listing(Answers(href))

\* the image_urls list, or the ValueError that ends the loop
RECURSIVE ImageUrls(_, _)
ImageUrls(url, imgs) ==
    IF Len(imgs) = 0 THEN [urls |-> <<>>, raises |-> ""]
    ELSE ListingThen(ImageUrl(url, Head(imgs)), ImageUrls(url, Tail(imgs)))

RECURSIVE ImagesMd(_)
ImagesMd(image_urls) ==
    IF Len(image_urls) = 0 THEN ""
    ELSE "![Image](" \o Head(image_urls) \o ")\n\n" \o ImagesMd(Tail(image_urls))

\* the link_urls list, or the ValueError that ends the loop
RECURSIVE LinkUrls(_, _)
LinkUrls(url, hrefs) ==
    IF Len(hrefs) = 0 THEN [urls |-> <<>>, raises |-> ""]
    ELSE ListingThen(LinkUrl(url, Head(hrefs)), LinkUrls(url, Tail(hrefs)))

RECURSIVE LinksMd(_)
LinksMd(link_urls) ==
    IF Len(link_urls) = 0 THEN ""
    ELSE "- [" \o Head(link_urls) \o "](" \o Head(link_urls) \o ")\n" \o LinksMd(Tail(link_urls))

\* the tables of the page, numbered from idx; a table is [table_data,
\* markdown]: the rows scraped and what to_markdown answers for its frame;
\* a table without rows is skipped (if table_data)
RECURSIVE PageTablesMd(_, _)
PageTablesMd(tables, idx) ==
    IF Len(tables) = 0 THEN ""
    ELSE IF Len(Head(tables).table_data) = 0 THEN PageTablesMd(Tail(tables), idx)
    ELSE "### Table " \o Str(idx) \o "\n\n" \o Head(tables).markdown \o "\n\n"
            \o PageTablesMd(Tail(tables), idx + 1)

\* the Markdown built from the parsed page and its two lists (lines 344-363)
PageMd(url, page, image_urls, link_urls) ==
    "# Extracted Content from " \o url \o "\n\n"
    \o "## Text Content\n\n" \o Join("\n", page.paragraphs) \o "\n\n"
    \o "## Images\n\n" \o ImagesMd(image_urls)
    \o "## Links\n\n" \o LinksMd(link_urls) \o "\n"
    \o "## Tables\n\n" \o PageTablesMd(page.tables, 1)

\* the page once its two loops have run: the ValueError of the image loop,
\* else that of the link loop, else the Markdown
PageOfLists(url, page, images, links) ==
    IF images.raises # "" THEN [md |-> "", raises |-> images.raises]
    ELSE IF links.raises # "" THEN [md |-> "", raises |-> links.raises]
    ELSE [md |-> PageMd(url, page, images.urls, links.urls), raises |-> ""]

\* open_source_extract_website(url) on the parsed page: [md, raises], md
\* the Markdown returned, raises the message of the ValueError that
\* urljoin raised for a src or an href, "" when none did
open_source_extract_website(url, page) ==
    PageOfLists(url, page, ImageUrls(url, page.imgs), LinkUrls(url, page.hrefs))

\* mutant: only a server error raises
RaisesForStatus_ServerOnly(status) == status >= 500 /\ status < 600

\* the reason phrase of the statuses the model uses
Reason(status) ==
    IF status = 404 THEN "Not Found"
    ELSE IF status = 503 THEN "Service Unavailable"
    ELSE ""

\* str() of the HTTPError raise_for_status raises
HTTPError(status, url) ==
    Str(status) \o (IF status < 500 THEN " Client Error: " ELSE " Server Error: ")
        \o Reason(status) \o " for url: " \o url

\* response.raise_for_status() raises
RaisesForStatus(status) == status >= 400 /\ status < 600

----------------------------------------------------------------------------
(* D) Enterprise website extraction (Diffbot).                             *)

\* dict.get(key, default)
Get(d, key, default) == IF key \in DOMAIN d THEN d[key] ELSE default

RECURSIVE DiffbotImagesMd(_)
DiffbotImagesMd(images) ==
    IF Len(images) = 0 THEN ""
    ELSE "![" \o Get(Head(images), "caption", "Image") \o "](" \o Get(Head(images), "url", "")
            \o ")\n\n" \o DiffbotImagesMd(Tail(images))

RECURSIVE DiffbotRows(_)
DiffbotRows(rows) == IF Len(rows) = 0 THEN "" ELSE PipeRow(Head(rows)) \o DiffbotRows(Tail(rows))

\* one table of an object (lines 409-416)
DiffbotTableMd(table) ==
    LET rows == Get(table, "rows", <<>>)
    IN  IF Len(rows) = 0 THEN ""
        ELSE PipeRow(rows[1]) \o DashRow(rows[1]) \o DiffbotRows(Tail(rows)) \o "\n"

RECURSIVE DiffbotTablesMd(_)
DiffbotTablesMd(tables) ==
    IF Len(tables) = 0 THEN ""
    ELSE DiffbotTableMd(Head(tables)) \o DiffbotTablesMd(Tail(tables))

\* the body of the loop over the objects (lines 391-416)
ObjectMd(obj) ==
    LET images == Get(obj, "images", <<>>)
        tables == Get(obj, "tables", <<>>)
    IN  "# " \o Get(obj, "title", "Untitled") \o "\n\n"
        \o Get(obj, "text", "") \o "\n\n"
        \o (IF Len(images) > 0 THEN "## Images\n\n" \o DiffbotImagesMd(images) ELSE "")
        \o (IF Len(tables) > 0 THEN "## Tables\n\n" \o DiffbotTablesMd(tables) ELSE "")

RECURSIVE ObjectsMd(_)
ObjectsMd(objects) ==
    IF Len(objects) = 0 THEN "" ELSE ObjectMd(Head(objects)) \o ObjectsMd(Tail(objects))

\* mutant: the Markdown is returned even when it is empty
enterprise_extract_website_EmptyOk(resp) ==
    IF resp.status_code # 200 THEN None
    ELSE Some(ObjectsMd(Get(resp.json, "objects", <<>>)))

\* enterprise_extract_website once the token is known to be set: None or
\* the Markdown, from the status and the JSON of the response
enterprise_extract_website(resp) ==
    LET markdown == ObjectsMd(Get(resp.json, "objects", <<>>))
    IN  IF resp.status_code # 200 THEN None
        ELSE IF markdown # "" THEN Some(markdown) ELSE None

----------------------------------------------------------------------------
(* Inputs: what the libraries report for the uploaded PDF.                 *)

\* a page as PyMuPDF and pdfplumber see it: the extensions of its images
\* and its text (None when the page has no text layer)
PageKinds ==
    { [images |-> <<>>, text |-> None],
      [images |-> <<"png">>, text |-> Some("Hello")],
      [images |-> <<"png", "jpeg">>, text |-> Some("Intro\n## Extracted Tables")] }

\* what tabula's read_pdf and each table's to_markdown answer
TabulaRuns ==
    { [raises |-> Some("java not found"), tables |-> <<>>],
      [raises |-> None, tables |-> <<>>],
      [raises |-> None, tables |-> <<[markdown |-> "| A   |\n|:----|\n| 1   |", raises |-> None]>>],
      [raises |-> None, tables |-> <<[markdown |-> "", raises |-> Some("Missing optional dependency")]>>],
      [raises |-> None, tables |-> <<[markdown |-> "| A   |\n|:----|\n| 1   |", raises |-> None],
                                     [markdown |-> "", raises |-> Some("bad table")]>>] }

Pdfs == UNION { [pages : [1..n -> PageKinds], tabula : TabulaRuns] : n \in 1..MaxPages }

\* rows of string cells, and the tables of one to MaxRows rows made of them
RowKinds == { <<"A", "B">>, <<"1", "2">>, <<"Name", "">> }

Tables == UNION { [1..n -> RowKinds] : n \in 1..MaxRows }

\* the rows as openpyxl reports them: an empty cell is None
XlsxCells(rows) ==
    [i \in 1..Len(rows) |-> [k \in 1..Len(rows[i]) |-> IF rows[i][k] = "" THEN None ELSE Some(rows[i][k])]]

\* the figures folder of a result bundle as os.listdir and os.path.isfile
\* report it (None: the bundle has no such folder)
FigureFolders ==
    { None,
      Some({[name |-> "fig2.png", isfile |-> TRUE], [name |-> "fig1.png", isfile |-> TRUE],
            [name |-> "'x.png", isfile |-> TRUE]}),
      Some({[name |-> "fig1.png", isfile |-> TRUE], [name |-> "nested", isfile |-> FALSE]}) }

\* result bundles: one without its manifest, one whose manifest has no
\* elements, and those holding a table both as manifest element and as
\* spreadsheet
Bundles ==
    { [manifest |-> None, tables |-> None, figures |-> None] }
    \cup { [manifest |-> Some([version |-> "1"]), tables |-> None, figures |-> f] : f \in FigureFolders }
    \cup { [manifest |-> Some([elements |-> << [Text |-> "Hello"], [Path |-> "//Document/Figure"],
                                              [Table |-> [Rows |-> t]], [Table |-> [Path |-> "x"]] >>]),
            tables |-> Some({[name |-> "t1.xlsx", rows |-> XlsxCells(t)],
                             [name |-> "t0.csv", rows |-> <<>>]}),
            figures |-> f] : t \in Tables, f \in FigureFolders }

\* what the remote extraction service does with the job: it answers with a
\* bundle, rejects the credentials at upload, fails at submit, or reports
\* the quota exhausted when the result is fetched
AdobeRuns ==
    { [service |-> "ok", bundle |-> b] : b \in Bundles }
    \cup { [service |-> f, bundle |-> [manifest |-> None, tables |-> None, figures |-> None]] :
              f \in {"ServiceApiException", "SdkException", "ServiceUsageException"} }

\* the page URLs submitted
Urls == { "https://x.com/blog", "http://x.com/a/b.html" }

\* references found in src and href attributes
Refs == << "//cdn.example.com/a.png", "/about", "img/a.png", "../up.png", "#top",
           "https://y.com/p.png", "http://y.com/", "mailto:a@b.c",
           " /lead", " http://y.com/q.png", "//[::1/x", "..;x" >>

\* the members of a set of numbers, in increasing order
RECURSIVE Ascending(_)
Ascending(S) ==
    IF S = {} THEN <<>>
    ELSE LET least == CHOOSE x \in S : \A y \in S : x <= y
         IN  <<least>> \o Ascending(S \ {least})

\* the references of the tags of one kind: up to MaxTags of Refs
RefLists ==
    { [k \in 1..Cardinality(S) |-> Refs[Ascending(S)[k]]] :
          S \in { T \in SUBSET (1..Len(Refs)) : Cardinality(T) <= MaxTags } }

\* what BeautifulSoup reports for a page: an img tag without src and one
\* for each of srcs, an anchor for each of hrefs, two paragraphs and two
\* tables, one without rows
WebPage(srcs, hrefs) ==
    [paragraphs |-> <<"First.", "Second.">>,
     imgs |-> <<None>> \o [k \in 1..Len(srcs) |-> Some(srcs[k])],
     hrefs |-> hrefs,
     tables |-> << [table_data |-> <<>>, markdown |-> ""],
                   [table_data |-> <<<<"A">>, <<"1">>>>, markdown |-> "| A   |\n|:----|\n| 1   |"] >>]

\* the pages explored: the img tags and the anchors draw their references
\* independently, up to MaxTags tags with a reference in all
WebPages ==
    { WebPage(t[1], t[2]) :
          t \in { r \in RefLists \X RefLists : Len(r[1]) + Len(r[2]) <= MaxTags } }

\* what requests reports for the fetch: it raises, or answers with a
\* status and a page
Fetches ==
    { [url |-> u, raises |-> "", status |-> 200, page |-> pg] : u \in Urls, pg \in WebPages }
    \cup { [url |-> u, raises |-> "", status |-> st, page |-> WebPage(<<>>, <<>>)] :
              u \in Urls, st \in {204, 304, 404, 503} }
    \cup { [url |-> u, raises |-> "ConnectionError", status |-> 0, page |-> WebPage(<<>>, <<>>)] :
              u \in Urls }

\* content objects of the extraction API
DiffbotObject(t) ==
    [title |-> "Post", text |-> "Body",
     images |-> << [url |-> "https://i.com/1.png", caption |-> "Cap"], [url |-> "https://i.com/2.png"] >>,
     tables |-> << [rows |-> t], [rows |-> <<>>], [caption |-> "no rows"] >>]

ObjectLists ==
    { << DiffbotObject(t), [text |-> "Only text"] >> : t \in Tables }
    \cup { << [text |-> "Only text"] >>, << [title |-> "T"] @@ <<>> >>, << <<>>, [title |-> "Last"] >> }

\* answers of the extraction API: the status and the JSON body
DiffbotRuns ==
    { [url |-> "https://x.com/blog", raises |-> "", status_code |-> 200, json |-> [objects |-> o]] :
          o \in ObjectLists \cup {<<>>} }
    \cup { [url |-> "https://x.com/blog", raises |-> "", status_code |-> 200,
            json |-> [errorCode |-> "500"]],
           [url |-> "https://x.com/blog", raises |-> "", status_code |-> 401,
            json |-> [errorCode |-> "401"]],
           [url |-> "https://x.com/blog", raises |-> "", status_code |-> 202,
            json |-> [objects |-> << [title |-> "T"] >>]],
           [url |-> "https://x.com/blog", raises |-> "ConnectionError", status_code |-> 0,
            json |-> <<>>] }

\* the values that differ from one run to the next: the random part of the
\* name of the temporary PDF, the random part of the names of the temporary
\* image files, and datetime.now()
RunValues == { [seed |-> "a", img_seed |-> "a", now |-> "2025-01-01T10-00-00"],
               [seed |-> "b", img_seed |-> "b", now |-> "2025-01-01T10-00-07"],
               [seed |-> "a", img_seed |-> "c", now |-> "2025-01-01T10-00-09"] }

\* a submit draws its input, a resubmit repeats the input of the run before
Inputs(kind, S) == IF pc = "idle" THEN S
                   ELSE IF inp.kind = kind THEN {inp.data} ELSE {}

----------------------------------------------------------------------------
(* The state after the script is loaded.                                   *)

Init ==
    /\ secrets \in SecretsFiles
    /\ s3_service \in IF S3Configured /\ ValidRegion(SecretsGet("AWS_DEFAULT_REGION", "us-east-1"))
                      THEN S3Services ELSE {"up"}
    /\ pc = "idle"
    /\ inp = [kind |-> "none"]
    /\ rnd = [seed |-> "", img_seed |-> "", now |-> ""]
    /\ pdf_path = ""
    /\ md = ""
    /\ md_result = None
    /\ files = {}
    /\ s3_clients = 0
    /\ s3_uploads = <<>>
    /\ jobs = 0
    /\ ui = <<>>
    /\ exc = ""
    /\ history = None

----------------------------------------------------------------------------
(* main, PDF branch with the open-source tool.                             *)

\* "Generate Markdown" pressed: the upload is copied to a temporary file and
\* open_source_extract_pdf starts with the title line
MainPdfOpenSource ==
    /\ pc \in {"idle", "resubmit"}
    /\ \E pdf \in Inputs("os_pdf", Pdfs), r \in RunValues :
          /\ inp' = [kind |-> "os_pdf", data |-> pdf]
          /\ rnd' = r
          /\ pdf_path' = TmpName(r.seed, 0, ".pdf")
          /\ files' = files \cup {TmpName(r.seed, 0, ".pdf")}
          /\ md' = open_source_extract_pdf_title(TmpName(r.seed, 0, ".pdf"))
    /\ pc' = "extract_images"
    /\ UNCHANGED <<secrets, s3_service, md_result, s3_clients, s3_uploads, jobs, ui, exc, history>>

\* md += extract_images_to_md(pdf_path); an exception of the upload helper
\* leaves extract_images_to_md, open_source_extract_pdf and main
ExtractImagesToMd ==
    /\ pc = "extract_images"
    /\ LET r == extract_images_to_md(inp.data.pages, rnd.img_seed,
                   [clients |-> s3_clients, uploads |-> s3_uploads, files |-> files, serial |-> 1])
       IN  /\ s3_clients' = r.clients
           /\ s3_uploads' = r.uploads
           /\ files' = r.files
           /\ IF r.raised # ""
              THEN /\ exc' = r.raised
                   /\ pc' = "done"
                   /\ md' = md
              ELSE /\ exc' = exc
                   /\ pc' = "extract_text"
                   /\ md' = md \o r.md
    /\ UNCHANGED <<secrets, s3_service, inp, rnd, pdf_path, md_result, jobs, ui, history>>

\* md += extract_text_to_md(pdf_path)
ExtractTextToMd ==
    /\ pc = "extract_text"
    /\ md' = md \o extract_text_to_md(inp.data.pages)
    /\ pc' = "extract_tables"
    /\ UNCHANGED <<secrets, s3_service, inp, rnd, pdf_path, md_result, files, s3_clients,
                   s3_uploads, jobs, ui, exc, history>>

\* md += extract_tables_to_md(pdf_path); return md
ExtractTablesToMd ==
    /\ pc = "extract_tables"
    /\ md' = md \o extract_tables_to_md(inp.data.tabula)
    /\ md_result' = Some(md')
    /\ pc' = "show_pdf"
    /\ UNCHANGED <<secrets, s3_service, inp, rnd, pdf_path, files, s3_clients, s3_uploads,
                   jobs, ui, exc, history>>

\* st.markdown(md_result); st.download_button(...)
ShowPdf ==
    /\ pc = "show_pdf"
    /\ ui' = ui \o << [op |-> "markdown", body |-> md_result[1]],
                      [op |-> "download_button", data |-> md_result[1],
                       file_name |-> "extracted_markdown.md"] >>
    /\ pc' = "done"
    /\ UNCHANGED <<secrets, s3_service, inp, rnd, pdf_path, md, md_result, files, s3_clients,
                   s3_uploads, jobs, exc, history>>

----------------------------------------------------------------------------
(* main, PDF branch with the enterprise tool.                              *)

\* "Generate Markdown" pressed: the upload is copied to a temporary file and
\* enterprise_extract_pdf is entered
MainPdfEnterprise ==
    /\ pc \in {"idle", "resubmit"}
    /\ \E run \in Inputs("ent_pdf", AdobeRuns), r \in RunValues :
          /\ inp' = [kind |-> "ent_pdf", data |-> run]
          /\ rnd' = r
          /\ pdf_path' = TmpName(r.seed, 0, ".pdf")
          /\ files' = files \cup {TmpName(r.seed, 0, ".pdf")}
    /\ md' = ""
    /\ pc' = "adobe_credentials"
    /\ UNCHANGED <<secrets, s3_service, md_result, s3_clients, s3_uploads, jobs, ui, exc, history>>

\* the credentials are read from st.secrets; any error is caught and logged
\* and enterprise_extract_pdf returns None
EnterpriseCredentials ==
    /\ pc = "adobe_credentials"
    /\ IF AdobeCredentialsError # "" \/ pdf_path \notin files
       THEN pc' = "show_enterprise_pdf"
       ELSE pc' = "adobe_job"
    /\ md_result' = None
    /\ UNCHANGED <<secrets, s3_service, inp, rnd, pdf_path, md, files, s3_clients, s3_uploads,
                   jobs, ui, exc, history>>

\* pdf_services.upload, submit and get_job_result; an exception of the
\* service is caught and logged and enterprise_extract_pdf returns None
EnterpriseJob ==
    /\ pc = "adobe_job"
    /\ jobs' = IF inp.data.service = "ServiceApiException" THEN jobs ELSE jobs + 1
    /\ pc' = IF inp.data.service = "ok" THEN "adobe_download" ELSE "show_enterprise_pdf"
    /\ md_result' = None
    /\ UNCHANGED <<secrets, s3_service, inp, rnd, pdf_path, md, files, s3_clients, s3_uploads,
                   ui, exc, history>>

\* the result is written to create_adobe_zip_path()
EnterpriseDownload ==
    /\ pc = "adobe_download"
    /\ files' = files \cup {create_adobe_zip_path(rnd.now)}
    /\ pc' = "adobe_markdown"
    /\ UNCHANGED <<secrets, s3_service, inp, rnd, pdf_path, md, md_result, s3_clients,
                   s3_uploads, jobs, ui, exc, history>>

\* md_output = adobe_zip_to_markdown(zip_path); return md_output, or None
\* when it raised
EnterpriseMarkdown ==
    /\ pc = "adobe_markdown"
    /\ LET r == adobe_zip_to_markdown(create_adobe_zip_path(rnd.now), inp.data.bundle,
                   [clients |-> s3_clients, uploads |-> s3_uploads, files |-> files])
       IN  /\ s3_clients' = r.clients
           /\ s3_uploads' = r.uploads
           /\ files' = r.files
           /\ md' = r.md
           /\ md_result' = IF r.raised # "" THEN None ELSE Some(r.md)
    /\ pc' = "show_enterprise_pdf"
    /\ UNCHANGED <<secrets, s3_service, inp, rnd, pdf_path, jobs, ui, exc, history>>

\* if not md_result: st.error(...); return -- else the preview and the
\* download button
ShowEnterprisePdf ==
    /\ pc = "show_enterprise_pdf"
    /\ IF ~Truthy(md_result)
       THEN ui' = Append(ui, [op |-> "error",
                              body |-> "Enterprise PDF extraction failed. Check logs or secrets."])
       ELSE ui' = ui \o << [op |-> "markdown", body |-> md_result[1]],
                           [op |-> "download_button", data |-> md_result[1],
                            file_name |-> "extracted_markdown.md"] >>
    /\ pc' = "done"
    /\ UNCHANGED <<secrets, s3_service, inp, rnd, pdf_path, md, md_result, files, s3_clients,
                   s3_uploads, jobs, exc, history>>

----------------------------------------------------------------------------
(* main, website branch.                                                   *)

\* "Generate Markdown" pressed with the open-source tool:
\* open_source_extract_website is entered inside main's try
MainWebsiteOpenSource ==
    /\ pc \in {"idle", "resubmit"}
    /\ \E f \in Inputs("os_web", Fetches) : inp' = [kind |-> "os_web", data |-> f]
    /\ md' = ""
    /\ pc' = "fetch_page"
    /\ UNCHANGED <<secrets, s3_service, rnd, pdf_path, md_result, files, s3_clients, s3_uploads,
                   jobs, ui, exc, history>>

\* requests.get(url); response.raise_for_status(): an exception is caught
\* by main, which shows it and returns
FetchPage ==
    /\ pc = "fetch_page"
    /\ IF inp.data.raises # ""
       THEN /\ ui' = Append(ui, [op |-> "error",
                       body |-> "Open-source website extraction failed: " \o inp.data.raises])
            /\ pc' = "done"
       ELSE IF RaisesForStatus(inp.data.status)
       THEN /\ ui' = Append(ui, [op |-> "error",
                       body |-> "Open-source website extraction failed: "
                                   \o HTTPError(inp.data.status, inp.data.url)])
            /\ pc' = "done"
       ELSE /\ ui' = ui
            /\ pc' = "assemble_page"
    /\ UNCHANGED <<secrets, s3_service, inp, rnd, pdf_path, md, md_result, files, s3_clients,
                   s3_uploads, jobs, exc, history>>

\* the page is parsed and the Markdown built and returned; a ValueError
\* of urljoin is caught by main, which shows it and returns
AssemblePage ==
    /\ pc = "assemble_page"
    /\ IF open_source_extract_website(inp.data.url, inp.data.page).raises # ""
       THEN /\ ui' = Append(ui, [op |-> "error",
                       body |-> "Open-source website extraction failed: "
                                   \o open_source_extract_website(inp.data.url, inp.data.page).raises])
            /\ pc' = "done"
            /\ UNCHANGED <<md, md_result>>
       ELSE /\ md' = open_source_extract_website(inp.data.url, inp.data.page).md
            /\ md_result' = Some(md')
            /\ pc' = "show_website"
            /\ ui' = ui
    /\ UNCHANGED <<secrets, s3_service, inp, rnd, pdf_path, files, s3_clients, s3_uploads,
                   jobs, exc, history>>

\* "Generate Markdown" pressed with the enterprise tool:
\* enterprise_extract_website runs; requests.get may raise, and nothing in
\* main catches it
MainWebsiteEnterprise ==
    /\ pc \in {"idle", "resubmit"}
    /\ \E d \in Inputs("ent_web", DiffbotRuns) :
          /\ inp' = [kind |-> "ent_web", data |-> d]
          /\ IF SecretsGet("DIFFBOT_API_TOKEN", "") = ""
             THEN /\ md_result' = None
                  /\ exc' = exc
                  /\ pc' = "check_website"
             ELSE IF d.raises # ""
             THEN /\ md_result' = None
                  /\ exc' = d.raises
                  /\ pc' = "done"
             ELSE /\ md_result' = enterprise_extract_website(d)
                  /\ exc' = exc
                  /\ pc' = "check_website"
    /\ md' = IF Truthy(md_result') THEN md_result'[1] ELSE ""
    /\ UNCHANGED <<secrets, s3_service, rnd, pdf_path, files, s3_clients, s3_uploads, jobs,
                   ui, history>>

\* if not md_result: st.error(...); return
CheckWebsite ==
    /\ pc = "check_website"
    /\ IF ~Truthy(md_result)
       THEN /\ ui' = Append(ui, [op |-> "error",
                       body |-> "Enterprise website extraction failed. Check logs or Diffbot token in secrets."])
            /\ pc' = "done"
       ELSE /\ ui' = ui
            /\ pc' = "show_website"
    /\ UNCHANGED <<secrets, s3_service, inp, rnd, pdf_path, md, md_result, files, s3_clients,
                   s3_uploads, jobs, exc, history>>

\* st.markdown(md_result); st.download_button(...)
ShowWebsite ==
    /\ pc = "show_website"
    /\ ui' = ui \o << [op |-> "markdown", body |-> md_result[1]],
                      [op |-> "download_button", data |-> md_result[1],
                       file_name |-> "extracted_website.md"] >>
    /\ pc' = "done"
    /\ UNCHANGED <<secrets, s3_service, inp, rnd, pdf_path, md, md_result, files, s3_clients,
                   s3_uploads, jobs, exc, history>>

----------------------------------------------------------------------------
(* The frontend of pdf-frontend-streamlit, which posts to a backend.       *)

\* what the backend does with the POST: it answers 200 with the URL of the
\* Markdown, answers 200 without it, answers with an error status, or the
\* request itself fails
BackendAnswers ==
    { [choice |-> c, method |-> m, raises |-> r.raises, status |-> r.status, json |-> r.json] :
          c \in {"pdf", "website"}, m \in {"open-source", "enterprise"},
          r \in { [raises |-> "", status |-> 200,
                   json |-> [markdown_url |-> "https://bkt.s3.amazonaws.com/out.md"]],
                  [raises |-> "", status |-> 200, json |-> [detail |-> "no markdown"]],
                  [raises |-> "", status |-> 500, json |-> [detail |-> "Internal Server Error"]],
                  [raises |-> "ConnectionError", status |-> 0, json |-> <<>>] } }

\* requests.post, resp.raise_for_status(), return resp.json(): [raised, json]
pdf_to_markdown(answer) ==
    IF answer.raises # "" THEN [raised |-> answer.raises, json |-> <<>>]
    ELSE IF RaisesForStatus(answer.status) THEN [raised |-> "HTTPError", json |-> <<>>]
    ELSE [raised |-> "", json |-> answer.json]

website_to_markdown(answer) ==
    IF answer.raises # "" THEN [raised |-> answer.raises, json |-> <<>>]
    ELSE IF RaisesForStatus(answer.status) THEN [raised |-> "HTTPError", json |-> <<>>]
    ELSE [raised |-> "", json |-> answer.json]

\* st.write and st.markdown of the link
LinkShown(md_url) ==
    << [op |-> "write", body |-> "**Markdown file uploaded to S3**: " \o md_url],
       [op |-> "markdown", body |-> "[View Markdown](" \o md_url \o ")"] >>

\* "Generate Markdown" pressed in the frontend: the backend is called and
\* the link shown; nothing catches what the call or the lookup raises
FrontendMain ==
    /\ pc \in {"idle", "resubmit"}
    /\ \E a \in Inputs("frontend", BackendAnswers) :
          /\ inp' = [kind |-> "frontend", data |-> a]
          /\ LET response_data == IF a.choice = "pdf" THEN pdf_to_markdown(a)
                                  ELSE website_to_markdown(a)
             IN  IF response_data.raised # ""
                 THEN exc' = response_data.raised /\ ui' = ui
                 ELSE IF "markdown_url" \notin DOMAIN response_data.json
                 THEN exc' = "KeyError" /\ ui' = ui
                 ELSE exc' = exc /\ ui' = ui \o LinkShown(response_data.json.markdown_url)
    /\ pc' = "done"
    /\ UNCHANGED <<secrets, s3_service, rnd, pdf_path, md, md_result, files, s3_clients,
                   s3_uploads, jobs, history>>

\* the button pressed with no file uploaded, or with a blank URL
MainNothingToDo ==
    /\ pc = "idle"
    /\ \E w \in {"Please upload a PDF first.", "Please enter a valid URL."} :
          ui' = Append(ui, [op |-> "warning", body |-> w])
    /\ pc' = "done"
    /\ UNCHANGED <<secrets, s3_service, inp, rnd, pdf_path, md, md_result, files, s3_clients,
                   s3_uploads, jobs, exc, history>>

\* the button is pressed again with the same input: Streamlit runs main anew
Resubmit ==
    /\ pc = "done"
    /\ history = None
    /\ inp.kind # "none"
    /\ history' = Some([md_result |-> md_result, rnd |-> rnd, pdf_path |-> pdf_path, exc |-> exc])
    /\ pc' = "resubmit"
    /\ md' = ""
    /\ md_result' = None
    /\ s3_clients' = 0
    /\ s3_uploads' = <<>>
    /\ jobs' = 0
    /\ ui' = <<>>
    /\ exc' = ""
    /\ UNCHANGED <<secrets, s3_service, inp, rnd, pdf_path, files>>

Next ==
    \/ MainPdfOpenSource
    \/ ExtractImagesToMd
    \/ ExtractTextToMd
    \/ ExtractTablesToMd
    \/ ShowPdf
    \/ MainPdfEnterprise
    \/ EnterpriseCredentials
    \/ EnterpriseJob
    \/ EnterpriseDownload
    \/ EnterpriseMarkdown
    \/ ShowEnterprisePdf
    \/ MainWebsiteOpenSource
    \/ FetchPage
    \/ AssemblePage
    \/ MainWebsiteEnterprise
    \/ CheckWebsite
    \/ ShowWebsite
    \/ FrontendMain
    \/ MainNothingToDo
    \/ Resubmit

Spec == Init /\ [][Next]_vars

\* the pipelines one at a time
NextLocalPdf ==
    \/ MainPdfOpenSource
    \/ ExtractImagesToMd
    \/ ExtractTextToMd
    \/ ExtractTablesToMd
    \/ ShowPdf
    \/ Resubmit

SpecLocalPdf == Init /\ [][NextLocalPdf]_vars

NextCloudPdf ==
    \/ MainPdfEnterprise
    \/ EnterpriseCredentials
    \/ EnterpriseJob
    \/ EnterpriseDownload
    \/ EnterpriseMarkdown
    \/ ShowEnterprisePdf
    \/ Resubmit

SpecCloudPdf == Init /\ [][NextCloudPdf]_vars

NextLocalPage ==
    \/ MainWebsiteOpenSource
    \/ FetchPage
    \/ AssemblePage
    \/ ShowWebsite
    \/ Resubmit

\* the local-page pipeline reads no secret and stores nothing: the
\* deployment without secrets stands for all of them
InitLocalPage == Init /\ secrets = <<>>

SpecLocalPage == InitLocalPage /\ [][NextLocalPage]_vars

NextCloudPage ==
    \/ MainWebsiteEnterprise
    \/ CheckWebsite
    \/ ShowWebsite
    \/ Resubmit

SpecCloudPage == Init /\ [][NextCloudPage]_vars

\* both enterprise pipelines
NextCloud == NextCloudPdf \/ NextCloudPage

SpecCloud == Init /\ [][NextCloud]_vars

----------------------------------------------------------------------------
(* Reading the Markdown back: helpers of the properties below.             *)

\* the lines of a text cut in two: the last line of the first half goes on
\* in the first line of the second
MergeLines(L, R) == SubSeq(L, 1, Len(L) - 1) \o <<L[Len(L)] \o R[1]>> \o Tail(R)

\* s.split("\n"), by halves
RECURSIVE Lines(_)
Lines(s) ==
    IF Len(s) = 0 THEN <<"">>
    ELSE IF Len(s) = 1 THEN (IF s = "\n" THEN <<"", "">> ELSE <<s>>)
    ELSE MergeLines(Lines(SubSeq(s, 1, Len(s) \div 2)),
                    Lines(SubSeq(s, (Len(s) \div 2) + 1, Len(s))))

Count(Ls, h) == Cardinality({ i \in 1..Len(Ls) : Ls[i] = h })

\* place of the first (last) line equal to h, 0 when there is none
FirstAt(Ls, h) ==
    IF \E i \in 1..Len(Ls) : Ls[i] = h
    THEN CHOOSE i \in 1..Len(Ls) : Ls[i] = h /\ \A j \in 1..(i - 1) : Ls[j] # h
    ELSE 0

LastAt(Ls, h) ==
    IF \E i \in 1..Len(Ls) : Ls[i] = h
    THEN CHOOSE i \in 1..Len(Ls) : Ls[i] = h /\ \A j \in (i + 1)..Len(Ls) : Ls[j] # h
    ELSE 0

\* the lines that are not blank among Ls[from..to]
NonBlank(Ls, from, to) == SelectSeq(SubSeq(Ls, from, to), LAMBDA l : l # "")

RECURSIVE FlatLines(_)
FlatLines(texts) == IF Len(texts) = 0 THEN <<>> ELSE Lines(Head(texts)) \o FlatLines(Tail(texts))

HImages == "## Extracted Images"
HText == "## Extracted Text"
HTables == "## Extracted Tables"

NumImages(pdf) == Len(FlatLines([k \in 1..Len(pdf.pages) |-> Join("\n", pdf.pages[k].images)]))
                     - Cardinality({ k \in 1..Len(pdf.pages) : Len(pdf.pages[k].images) = 0 })

\* the tables rendered before table extraction fails
RECURSIVE Rendered(_)
Rendered(tables) ==
    IF Len(tables) = 0 \/ Head(tables).raises # None THEN <<>>
    ELSE <<Head(tables).markdown>> \o Rendered(Tail(tables))

TablesFail(tabula) ==
    tabula.raises # None \/ \E k \in 1..Len(tabula.tables) : tabula.tables[k].raises # None

\* the lines of extracted content copied into the document: page texts and
\* table renderings
ContentLines(pdf) ==
    FlatLines([k \in 1..Len(pdf.pages) |-> OrEmpty(pdf.pages[k].text)])
    \o FlatLines(Rendered(pdf.tabula.tables))

\* open_source_extract_pdf has returned
LocalPdfReturned == inp.kind = "os_pdf" /\ pc = "show_pdf"

----------------------------------------------------------------------------
(* C1 as stated: the returned string holds the title line and the three    *)
(* section headings exactly once each, in this order; a document with no   *)
(* images and no tables has nothing between the Images and Text headings   *)
(* and nothing after the Tables heading.                                   *)
C1_AsStated ==
    LocalPdfReturned =>
        LET Ls == Lines(md_result[1])
            title == "# Extracted Content from " \o basename(pdf_path)
        IN  /\ Count(Ls, title) = 1 /\ Count(Ls, HImages) = 1
            /\ Count(Ls, HText) = 1 /\ Count(Ls, HTables) = 1
            /\ FirstAt(Ls, title) < FirstAt(Ls, HImages)
            /\ FirstAt(Ls, HImages) < FirstAt(Ls, HText)
            /\ FirstAt(Ls, HText) < FirstAt(Ls, HTables)
            /\ (NumImages(inp.data) = 0 /\ Len(inp.data.tabula.tables) = 0) =>
                  /\ NonBlank(Ls, FirstAt(Ls, HImages) + 1, FirstAt(Ls, HText) - 1) = <<>>
                  /\ NonBlank(Ls, FirstAt(Ls, HTables) + 1, Len(Ls)) = <<>>

(* C1 amended: the returned string starts with the title line; the         *)
(* assembler emits each of the three headings once, in this order, so that *)
(* a heading occurs once more only for each line of page text or table     *)
(* rendering that equals it, and the first occurrences are in this order;  *)
(* with no images nothing is between the Images heading and the Text       *)
(* heading, and with no tables and no failure of table extraction nothing  *)
(* follows the last Tables heading.                                        *)
C1_Sections ==
    LocalPdfReturned =>
        LET Ls == Lines(md_result[1])
            content == ContentLines(inp.data)
        IN  /\ Ls[1] = "# Extracted Content from " \o basename(pdf_path)
            /\ \A h \in {HImages, HText, HTables} : Count(Ls, h) = 1 + Count(content, h)
            /\ 1 < FirstAt(Ls, HImages)
            /\ FirstAt(Ls, HImages) < FirstAt(Ls, HText)
            /\ FirstAt(Ls, HText) < FirstAt(Ls, HTables)
            /\ NumImages(inp.data) = 0 =>
                  NonBlank(Ls, FirstAt(Ls, HImages) + 1, FirstAt(Ls, HText) - 1) = <<>>
            /\ (Len(inp.data.tabula.tables) = 0 /\ ~TablesFail(inp.data.tabula)) =>
                  NonBlank(Ls, LastAt(Ls, HTables) + 1, Len(Ls)) = <<>>

\* a two-page document without images or tables has been assembled
C1_Witness ==
    /\ LocalPdfReturned
    /\ Len(inp.data.pages) = 2
    /\ NumImages(inp.data) = 0
    /\ Len(inp.data.tabula.tables) = 0 /\ ~TablesFail(inp.data.tabula)

----------------------------------------------------------------------------
\* the claim's condition on the configuration, read off the secrets file
AllThreeSet ==
    \A k \in {"S3_BUCKET_NAME", "AWS_ACCESS_KEY_ID", "AWS_SECRET_ACCESS_KEY"} :
        k \in DOMAIN secrets /\ secrets[k] # ""

\* extract_images_to_md is over: it returned, or an exception left it
ImagesDone ==
    /\ inp.kind = "os_pdf"
    /\ pc = "extract_text" \/ (pc = "done" /\ exc # "")

\* the warning lines the claim expects, one per image in page order
RECURSIVE WarningLines(_, _)
WarningLines(pages, p) ==
    IF p > Len(pages) THEN <<>>
    ELSE [i \in 1..Len(pages[p].images) |->
              "**[Warning: Failed to upload image (page " \o Str(p) \o ", index " \o Str(i)
                  \o ") to S3]**"]
         \o WarningLines(pages, p + 1)

\* the lines extract_images_to_md added after its heading
ImageSectionLines == NonBlank(Lines(md), FirstAt(Lines(md), HImages) + 1, Len(Lines(md)))

(* C2: upload_file_to_s3 goes on to the object store (builds the client    *)
(* and calls upload_file) if and only if bucket, access key and secret key *)
(* are all set and non-empty; when one is missing there is no client, no   *)
(* upload call, no exception and no URL, and extract_images_to_md writes   *)
(* exactly one warning line per image, naming its 1-based page and index,  *)
(* and no image reference.                                                 *)
C2_UploadOnlyWhenConfigured ==
    ImagesDone =>
        /\ (s3_clients > 0) <=> (AllThreeSet /\ NumImages(inp.data) > 0)
        /\ Len(s3_uploads) > 0 => AllThreeSet
        /\ ~AllThreeSet =>
              /\ s3_clients = 0 /\ s3_uploads = <<>> /\ exc = ""
              /\ pc = "extract_text"
              /\ ImageSectionLines = WarningLines(inp.data.pages, 1)

\* images on two pages, two of them on one page, were processed with the
\* access key missing
C2_Witness ==
    /\ ImagesDone /\ ~AllThreeSet
    /\ SecretsGet("S3_BUCKET_NAME", "") # ""
    /\ NumImages(inp.data) = 3

(* C3 as stated: with object storage configured, a failing upload never    *)
(* raises and never aborts the conversion: the local assembler returns     *)
(* its document with one line per image (the warning for a failed one),    *)
(* the cloud assembler returns its document with one figure line per       *)
(* figure file (the local path for a failed one).                          *)
C3_UploadFailureNeverAborts ==
    /\ (inp.kind = "os_pdf" /\ pc = "done" /\ AllThreeSet) =>
          /\ exc = ""
          /\ Truthy(md_result)
          /\ Len(SelectSeq(Lines(md_result[1]),
                           LAMBDA l : StartsWith(l, "![Image page ") \/ StartsWith(l, "**[Warning: ")))
                >= NumImages(inp.data)
    /\ (inp.kind = "ent_pdf" /\ pc = "done" /\ AllThreeSet /\ AdobeCredentialsError = ""
            /\ inp.data.service = "ok" /\ inp.data.bundle.manifest # None
            /\ inp.data.bundle.figures # None) =>
          /\ Truthy(md_result)
          /\ Len(SelectSeq(Lines(md_result[1]), LAMBDA l : StartsWith(l, "![Figure](")))
                = Cardinality({ f \in inp.data.bundle.figures[1] : f.isfile })

----------------------------------------------------------------------------
(* C4 as stated: a second run on the same input, with the same            *)
(* configuration, the same upload outcomes and the same path handed to     *)
(* the assembler, ends with the same result as the first: the same         *)
(* Markdown byte for byte, or failure both times.                          *)
C4_SameInputSameMarkdown ==
    (pc = "done" /\ history # None /\ pdf_path = history[1].pdf_path) =>
        md_result = history[1].md_result

(* C5 as stated: when a run of main has ended, the only files it left on   *)
(* disk are result-bundle zip archives under temp_adobe_extractions/.      *)
C5_OnlyArchivesRemain ==
    (pc = "done" /\ inp.kind # "none") =>
        \A f \in files : StartsWith(f, "temp_adobe_extractions/") /\ EndsWith(f, ".zip")

----------------------------------------------------------------------------
\* u names its scheme: a letter, then scheme characters, then a colon
HasScheme(u) ==
    \E i \in 2..Len(u) :
        /\ SubSeq(u, i, i) = ":"
        /\ AllCharsIn(SubSeq(u, 1, 1), "ABCDEFGHIJKLMNOPQRSTUVWXYZabcdefghijklmnopqrstuvwxyz")
        /\ AllCharsIn(SubSeq(u, 1, i - 1),
                      "ABCDEFGHIJKLMNOPQRSTUVWXYZabcdefghijklmnopqrstuvwxyz0123456789+-.")

\* out is an absolute URL as it stands: it names its scheme, so it is
\* neither relative nor protocol-relative
Absolute(out) == HasScheme(out) /\ ~StartsWith(out, "//")

\* r without the whitespace a URL parser ignores: the blanks and control
\* characters before it, and every tab and line break
Unblanked(r) == RemoveAll(LStrip(r, " \t\n\r\f"), "\t\r\n")

\* what CPython's urljoin(u, r) answers for the pages and references
\* explored, written out
Resolved ==
    [u \in Urls |->
        IF u = "https://x.com/blog"
        THEN [r \in {"//cdn.example.com/a.png", "/about", "img/a.png", "../up.png", "#top",
                     "mailto:a@b.c", " /lead", " http://y.com/q.png", "..;x"} |->
                 CASE r = "//cdn.example.com/a.png" -> "https://cdn.example.com/a.png"
                   [] r = "/about"                  -> "https://x.com/about"
                   [] r = "img/a.png"               -> "https://x.com/img/a.png"
                   [] r = "../up.png"               -> "https://x.com/up.png"
                   [] r = "#top"                    -> "https://x.com/blog#top"
                   [] r = "mailto:a@b.c"            -> "mailto:a@b.c"
                   [] r = " /lead"                  -> "https://x.com/lead"
                   [] r = " http://y.com/q.png"     -> " http://y.com/q.png"
                   [] r = "..;x"                    -> "https://x.com/;x"]
        ELSE [r \in {"//cdn.example.com/a.png", "/about", "img/a.png", "../up.png", "#top",
                     "mailto:a@b.c", " /lead", " http://y.com/q.png", "..;x"} |->
                 CASE r = "//cdn.example.com/a.png" -> "http://cdn.example.com/a.png"
                   [] r = "/about"                  -> "http://x.com/about"
                   [] r = "img/a.png"               -> "http://x.com/a/img/a.png"
                   [] r = "../up.png"               -> "http://x.com/up.png"
                   [] r = "#top"                    -> "http://x.com/a/b.html#top"
                   [] r = "mailto:a@b.c"            -> "mailto:a@b.c"
                   [] r = " /lead"                  -> "http://x.com/lead"
                   [] r = " http://y.com/q.png"     -> "http://y.com/q.png"
                   [] r = "..;x"                    -> "http://x.com/;x"]]

\* the three rules of the claim for reference r on page u
Emitted(u, r, isImage) ==
    IF StartsWith(r, "http:") \/ StartsWith(r, "https:") THEN r
    ELSE IF isImage /\ StartsWith(r, "//") THEN "https:" \o r
    ELSE Resolved[u][r]

\* the src values of the page's img tags, in page order
Srcs(page) ==
    LET with == SelectSeq(page.imgs, LAMBDA t : t # None)
    IN  [k \in 1..Len(with) |-> with[k][1]]

\* the URLs of the Images lines and of the Links bullets of a document
ImageLineUrls(Ls) ==
    LET imgs == NonBlank(Ls, FirstAt(Ls, "## Images") + 1, FirstAt(Ls, "## Links") - 1)
    IN  [k \in 1..Len(imgs) |->
            IF imgs[k] = "![Image](" \o SubSeq(imgs[k], 10, Len(imgs[k]) - 1) \o ")"
            THEN Some(SubSeq(imgs[k], 10, Len(imgs[k]) - 1)) ELSE None]

LinkBulletUrls(Ls) ==
    LET lnks == NonBlank(Ls, FirstAt(Ls, "## Links") + 1, FirstAt(Ls, "## Tables") - 1)
        Url(l) == SubSeq(l, 4, (Len(l) - 3) \div 2 + 2)
    IN  [k \in 1..Len(lnks) |->
            IF lnks[k] = "- [" \o Url(lnks[k]) \o "](" \o Url(lnks[k]) \o ")"
            THEN Some(Url(lnks[k])) ELSE None]

\* one line per src and one bullet per href, in page order, each with the
\* URL the three rules give
ListedByRule(u, page, images, links) ==
    /\ images = [k \in 1..Len(Srcs(page)) |-> Some(Emitted(u, Srcs(page)[k], TRUE))]
    /\ links = [k \in 1..Len(page.hrefs) |-> Some(Emitted(u, page.hrefs[k], FALSE))]

LocalPageReturned == inp.kind = "os_web" /\ pc = "show_website"

(* C6 as stated: in the document open_source_extract_website returns for   *)
(* page u the Images section has one line per img tag with a src and the   *)
(* Links section one bullet per anchor, in page order; a src or href that  *)
(* starts with http: or https: is listed unchanged, a protocol-relative    *)
(* src with "https:" before it, every other value resolved against u; and  *)
(* every URL listed is absolute.                                           *)
C6_AsStated ==
    LocalPageReturned =>
        /\ ListedByRule(inp.data.url, inp.data.page,
                        ImageLineUrls(Lines(md_result[1])), LinkBulletUrls(Lines(md_result[1])))
        /\ \A k \in 1..Len(Srcs(inp.data.page)) :
              Absolute(Emitted(inp.data.url, Srcs(inp.data.page)[k], TRUE))
        /\ \A k \in 1..Len(inp.data.page.hrefs) :
              Absolute(Emitted(inp.data.url, inp.data.page.hrefs[k], FALSE))

\* r names a scheme only once the whitespace before or in it is dropped,
\* and is listed as it stands
ListedWithBlanks(r, out) == out = r /\ ~HasScheme(r) /\ Absolute(Unblanked(r))

(* C6 amended: as stated, except that a value which names a scheme other   *)
(* than the page's only behind whitespace (" http://y.com/q.png" on an     *)
(* https page) is listed as it stands, whitespace included; every other    *)
(* URL listed is absolute, "/about" on https://x.com/blog being listed as  *)
(* https://x.com/about.                                                    *)
C6_UrlsAbsolute ==
    LocalPageReturned =>
        /\ ListedByRule(inp.data.url, inp.data.page,
                        ImageLineUrls(Lines(md_result[1])), LinkBulletUrls(Lines(md_result[1])))
        /\ \A k \in 1..Len(Srcs(inp.data.page)) :
              \E out \in {Emitted(inp.data.url, Srcs(inp.data.page)[k], TRUE)} :
                  Absolute(out) \/ ListedWithBlanks(Srcs(inp.data.page)[k], out)
        /\ \A k \in 1..Len(inp.data.page.hrefs) :
              \E out \in {Emitted(inp.data.url, inp.data.page.hrefs[k], FALSE)} :
                  Absolute(out) \/ ListedWithBlanks(inp.data.page.hrefs[k], out)

\* a page at https://x.com/blog with an img of src //cdn.example.com/a.png
\* and an anchor of href /about was assembled
C6_Witness ==
    /\ LocalPageReturned
    /\ inp.data.url = "https://x.com/blog"
    /\ Srcs(inp.data.page) = << "//cdn.example.com/a.png" >>
    /\ inp.data.page.hrefs = << "/about" >>

----------------------------------------------------------------------------
\* the maximal runs of consecutive lines that start with a pipe
RECURSIVE PipeBlocks(_, _, _)
PipeBlocks(Ls, i, cur) ==
    IF i > Len(Ls) THEN (IF Len(cur) = 0 THEN <<>> ELSE <<cur>>)
    ELSE IF StartsWith(Ls[i], "|") THEN PipeBlocks(Ls, i + 1, Append(cur, Ls[i]))
    ELSE (IF Len(cur) = 0 THEN <<>> ELSE <<cur>>) \o PipeBlocks(Ls, i + 1, <<>>)

\* the n+1 lines the claim gives a table of n >= 1 rows
TableLines(rows) ==
    << "| " \o Join(" | ", rows[1]) \o " |",
       "| " \o Join(" | ", [k \in 1..Len(rows[1]) |-> Repeat("-", Len(rows[1][k]))]) \o " |" >>
    \o [i \in 1..(Len(rows) - 1) |-> "| " \o Join(" | ", rows[i + 1]) \o " |"]

\* the tables of n >= 1 rows among the manifest elements, in order
ManifestTables(manifest) ==
    LET elements == IF "elements" \in DOMAIN manifest THEN manifest.elements ELSE <<>>
        with == SelectSeq(elements, LAMBDA e : /\ "Table" \in DOMAIN e
                                               /\ "Rows" \in DOMAIN e["Table"]
                                               /\ Len(e["Table"]["Rows"]) >= 1)
    IN  [k \in 1..Len(with) |-> with[k]["Table"]["Rows"]]

\* the spreadsheet tables of n >= 1 rows, by file name, an empty cell read
\* as the empty string
SheetTables(tables) ==
    IF tables = None THEN <<>>
    ELSE LET names == SelectSeq(sorted(Names(tables[1])), LAMBDA n : EndsWith(n, ".xlsx"))
             rowsOf(n) == (CHOOSE e \in tables[1] : e.name = n).rows
             with == SelectSeq(names, LAMBDA n : Len(rowsOf(n)) >= 1)
         IN  [k \in 1..Len(with) |->
                 [i \in 1..Len(rowsOf(with[k])) |->
                     [c \in 1..Len(rowsOf(with[k])[i]) |->
                         IF rowsOf(with[k])[i][c] = None THEN "" ELSE rowsOf(with[k])[i][c][1]]]]

\* the tables of n >= 1 rows of the content objects, in order
RECURSIVE ObjectTables(_)
ObjectTables(objects) ==
    IF Len(objects) = 0 THEN <<>>
    ELSE LET tables == IF "tables" \in DOMAIN Head(objects) THEN Head(objects).tables ELSE <<>>
             with == SelectSeq(tables, LAMBDA t : "rows" \in DOMAIN t /\ Len(t.rows) >= 1)
         IN  [k \in 1..Len(with) |-> with[k].rows] \o ObjectTables(Tail(objects))

CloudPdfReturned == inp.kind = "ent_pdf" /\ pc = "show_enterprise_pdf" /\ Truthy(md_result)
CloudPageReturned == inp.kind = "ent_web" /\ pc = "show_website"

AB12 == << <<"A", "B">>, <<"1", "2">> >>

(* C7: every table of n >= 1 rows of string cells (a Table element of the  *)
(* manifest, a spreadsheet of the bundle, a table of a content object) is  *)
(* in the returned Markdown as exactly n+1 pipe lines: the first row as    *)
(* header, a separator whose i-th cell has as many dashes as the i-th      *)
(* header cell has characters, then the other rows in order; the rows      *)
(* [[A,B],[1,2]] give "| A | B |", "| - | - |", "| 1 | 2 |".               *)
C7_PipeTables ==
    /\ CloudPdfReturned =>
          LET want == ManifestTables(inp.data.bundle.manifest[1]) \o SheetTables(inp.data.bundle.tables)
              got == PipeBlocks(Lines(md_result[1]), 1, <<>>)
          IN  /\ got = [k \in 1..Len(want) |-> TableLines(want[k])]
              /\ \A k \in 1..Len(want) :
                    /\ Len(got[k]) = Len(want[k]) + 1
                    /\ want[k] = AB12 => got[k] = << "| A | B |", "| - | - |", "| 1 | 2 |" >>
    /\ CloudPageReturned =>
          LET want == ObjectTables(inp.data.json.objects)
              got == PipeBlocks(Lines(md_result[1]), 1, <<>>)
          IN  /\ got = [k \in 1..Len(want) |-> TableLines(want[k])]
              /\ \A k \in 1..Len(want) :
                    /\ Len(got[k]) = Len(want[k]) + 1
                    /\ want[k] = AB12 => got[k] = << "| A | B |", "| - | - |", "| 1 | 2 |" >>

\* a bundle whose manifest and spreadsheet hold the rows [[Name,""],[1,2]]
\* was converted
C7_Witness ==
    /\ CloudPdfReturned
    /\ ManifestTables(inp.data.bundle.manifest[1]) = << << <<"Name", "">>, <<"1", "2">> >> >>
    /\ Len(SheetTables(inp.data.bundle.tables)) = 1

----------------------------------------------------------------------------
(* C8 as stated: when table extraction fails, at read_pdf or at any        *)
(* table's to_markdown, all that follows the "## Extracted Tables" heading *)
(* is the single line "Failed to process tables: <message>": no            *)
(* "### Table <i>" block is there.                                         *)
C8_FailureLineOnly ==
    (LocalPdfReturned /\ TablesFail(inp.data.tabula)) =>
        LET Ls == Lines(md_result[1])
            tail == NonBlank(Ls, LastAt(Ls, HTables) + 1, Len(Ls))
        IN  /\ Len(tail) = 1
            /\ StartsWith(tail[1], "Failed to process tables: ")
            /\ \A i \in 1..Len(Ls) : ~StartsWith(Ls[i], "### Table ")

----------------------------------------------------------------------------
\* the secret holds JSON with client_credentials.client_id and .client_secret
CredentialsUsable ==
    /\ "ADOBE_CREDENTIALS_JSON" \in DOMAIN secrets
    /\ secrets["ADOBE_CREDENTIALS_JSON"].parses
    /\ "client_credentials" \in DOMAIN secrets["ADOBE_CREDENTIALS_JSON"].value
    /\ {"client_id", "client_secret"} \subseteq
           DOMAIN secrets["ADOBE_CREDENTIALS_JSON"].value["client_credentials"]

\* one of the failures the claim lists
CloudPdfFails ==
    \/ ~CredentialsUsable
    \/ inp.data.service # "ok"
    \/ inp.data.bundle.manifest = None

FailureShown ==
    << [op |-> "error", body |-> "Enterprise PDF extraction failed. Check logs or secrets."] >>

(* C9: when the credentials are missing or invalid, the service raises or  *)
(* the bundle has no structuredData.json, enterprise_extract_pdf returns   *)
(* None and main shows one error and no Markdown; a run submits at most    *)
(* one job and no exception leaves enterprise_extract_pdf.                 *)
C9_FailureIsNone ==
    inp.kind = "ent_pdf" =>
        /\ jobs <= 1
        /\ exc = ""
        /\ (CloudPdfFails /\ pc \in {"show_enterprise_pdf", "done"}) => md_result = None
        /\ (CloudPdfFails /\ pc = "done") => ui = FailureShown

\* a job was run, its bundle came without the manifest, and the run ended
C9_Witness ==
    /\ inp.kind = "ent_pdf" /\ pc = "done"
    /\ CredentialsUsable /\ inp.data.service = "ok" /\ inp.data.bundle.manifest = None
    /\ jobs = 1 /\ ui = FailureShown

----------------------------------------------------------------------------
TokenSet == "DIFFBOT_API_TOKEN" \in DOMAIN secrets /\ secrets["DIFFBOT_API_TOKEN"] # ""

\* the objects of the response, none when the key is absent
ObjectsOf(json) == IF "objects" \in DOMAIN json THEN json.objects ELSE <<>>

\* enterprise_extract_website has returned
CloudPageAnswered ==
    inp.kind = "ent_web" /\ inp.data.raises = "" /\ pc \in {"check_website", "show_website", "done"}

(* C10: enterprise_extract_website returns None, never an empty string,    *)
(* when the token is not set, the status is not 200 or the response has    *)
(* no content objects; with the token set, status 200 and at least one     *)
(* object it returns a non-empty string whose "# " lines are the titles of *)
(* the objects in order, "Untitled" for an object without title.           *)
C10_NoneOrTitledBlocks ==
    CloudPageAnswered =>
        LET objects == ObjectsOf(inp.data.json)
        IN  /\ md_result # Some("")
            /\ (~TokenSet \/ inp.data.status_code # 200 \/ Len(objects) = 0) => md_result = None
            /\ (TokenSet /\ inp.data.status_code = 200 /\ Len(objects) > 0) =>
                  /\ Truthy(md_result)
                  /\ Len(md_result[1]) > 0
                  /\ SelectSeq(Lines(md_result[1]), LAMBDA l : StartsWith(l, "# "))
                        = [k \in 1..Len(objects) |->
                              "# " \o (IF "title" \in DOMAIN objects[k] THEN objects[k].title
                                       ELSE "Untitled")]

\* an answer of two objects, the first without title, was converted
C10_Witness ==
    /\ CloudPageAnswered /\ TokenSet /\ pc = "show_website"
    /\ Len(ObjectsOf(inp.data.json)) = 2
    /\ "title" \notin DOMAIN ObjectsOf(inp.data.json)[1]
    /\ StartsWith(md_result[1], "# Untitled\n")

----------------------------------------------------------------------------
\* what main has shown when the run of a local-page submit is over
ErrorsShown == SelectSeq(ui, LAMBDA e : e.op = "error")
MarkdownShown == SelectSeq(ui, LAMBDA e : e.op \in {"markdown", "download_button"})

\* a response came back for the page (requests.get did not raise)
PageFetched == inp.kind = "os_web" /\ inp.data.raises = "" /\ pc # "fetch_page"

\* parsing or assembly has begun, or its result is at hand
PageAssembled == pc \in {"assemble_page", "show_website"} \/ md # "" \/ md_result # None

\* main showed one error, and neither the Markdown nor the download button
AbortedWithOneError ==
    /\ ~PageAssembled
    /\ pc = "done" =>
          /\ Len(ErrorsShown) = 1 /\ Len(MarkdownShown) = 0
          /\ StartsWith(ErrorsShown[1].body, "Open-source website extraction failed: ")

(* C11 as stated: a fetch status that is not a success status (not 2xx)    *)
(* aborts the local-page run before parsing and assembly; main shows one   *)
(* error and neither the Markdown nor the download button.                 *)
C11_AsStated ==
    (PageFetched /\ ~(inp.data.status >= 200 /\ inp.data.status < 300)) => AbortedWithOneError

(* C11 amended: a fetch status of 400 to 599 aborts the local-page run     *)
(* before parsing and assembly; main shows one error and neither the       *)
(* Markdown nor the download button.                                       *)
C11_ErrorStatusAborts ==
    (PageFetched /\ inp.data.status >= 400 /\ inp.data.status < 600) => AbortedWithOneError

\* the page answered 404 and the run ended with the error on screen
C11_Witness ==
    /\ PageFetched /\ inp.data.status = 404 /\ pc = "done"
    /\ ui = << [op |-> "error",
                body |-> "Open-source website extraction failed: 404 Client Error: Not Found for url: "
                            \o inp.data.url] >>

----------------------------------------------------------------------------
\* what the run has put on the screen
Errors == SelectSeq(ui, LAMBDA e : e.op = "error")
Rendered_md == SelectSeq(ui, LAMBDA e : e.op = "markdown")
Downloads == SelectSeq(ui, LAMBDA e : e.op = "download_button")

(* C12 as stated: a submit ends without an exception leaving main, and in  *)
(* exactly one of two ways: the Markdown is rendered and offered for       *)
(* download (by the link to it, in the frontend that posts to a backend)   *)
(* and no error is shown, or exactly one error message is shown and no     *)
(* Markdown is rendered; the remote job is submitted at most once.         *)
C12_OneOutcomePerSubmit ==
    (pc = "done" /\ inp.kind # "none") =>
        /\ exc = ""
        /\ jobs <= 1
        /\ \/ /\ Len(Rendered_md) = 1 /\ Len(Errors) = 0
              /\ Len(Downloads) = 1 \/ inp.kind = "frontend"
           \/ Len(Errors) = 1 /\ Len(Rendered_md) = 0 /\ Len(Downloads) = 0

====
